---- MODULE Spec2Model ----
(***************************************************************************)
(* A model of the asset-level allocation and projection engine of          *)
(* open-asset-data (src/pipeline): the lifecycle filter, the entity         *)
(* resolver, the output allocator, the multi-source reconciler and the      *)
(* trajectory projector.                                                    *)
(*                                                                          *)
(* Conventions                                                              *)
(*   - a DataFrame is a sequence of records (row order is kept); the        *)
(*     field id of a row is its index label, which pandas keeps through     *)
(*     boolean indexing and .copy();                                        *)
(*   - np.nan is the value NaN; a comparison with NaN is false, as in       *)
(*     pandas/numpy;                                                        *)
(*   - capacities are in ttpa (kt per year) as in the source; quantities    *)
(*     in Mt are kept in units of 0.0001 Mt (the 4 decimals that            *)
(*     build_plant_level_tp rounds to), emission factors in units of        *)
(*     0.001 tCO2/t, utilization rates in percent;                          *)
(*   - Python's round(x, n) is RoundDiv (round half to even);               *)
(*   - a text column matched by regular expressions (Parent, plant name)    *)
(*     holds values of a small vocabulary, over which each pattern's        *)
(*     re.search is tabulated.                                              *)
(***************************************************************************)
EXTENDS Integers, Sequences, FiniteSets, TLC

VARIABLES
    units_df,     \* the registry snapshot handed to the functions (a frame)
    inputs,       \* the other arguments of the computation under study
    tp_detail,    \* last detail frame of build_plant_level_tp(skip_closures=False)
    bau_detail,   \* last detail frame of build_plant_level_tp(skip_closures=True)
    ret           \* the last call of the remaining functions and its return value

vars == <<units_df, inputs, tp_detail, bau_detail, ret>>

(***************************************************************************)
(* Bounds of the model                                                      *)
(***************************************************************************)
MaxUnits == 2
Horizon == 6

(***************************************************************************)
(* Values of the source                                                     *)
(***************************************************************************)
NaN == -1
BaseYear == 2024
EndYear == BaseYear + Horizon
RetiredNoDateYear == 2023
PreRetirementDefaultYear == 2030
PreRetirementLag == 5
DefaultUrPct == 80
InventoryRetiredNoDateYear == 2024

notna(v) == v # NaN

Statuses ==
    {"operating", "operating pre-retirement", "retired", "mothballed",
     "construction", "announced", "cancelled"}

\* round half to even of n / d, for d > 0 (Python 3 round)
RoundDiv(n, d) ==
    LET q == n \div d
        r == n % d
    IN  IF 2 * r < d THEN q
        ELSE IF 2 * r > d THEN q + 1
        ELSE IF q % 2 = 0 THEN q ELSE q + 1

RECURSIVE SumSeq(_)
SumSeq(s) == IF s = <<>> THEN 0 ELSE Head(s) + SumSeq(Tail(s))

MapSeq(s, Op(_)) == [i \in 1..Len(s) |-> Op(s[i])]

Ids(rows) == {rows[i].id : i \in 1..Len(rows)}

(***************************************************************************)
(* Exact arithmetic: a float is the fraction [n, d] in                      *)
(* lowest terms with d > 0; the result of a division by zero (numpy's inf   *)
(* or nan) is DivError, and every operation on it gives it back             *)
(***************************************************************************)
Abs(x) == IF x < 0 THEN -x ELSE x

RECURSIVE GCD(_, _)
GCD(a, b) == IF b = 0 THEN Abs(a) ELSE GCD(b, a % Abs(b))

DivError == [n |-> 0, d |-> 0]

Rat(n, d) ==
    IF d = 0 THEN DivError
    ELSE LET g == GCD(n, d)
             sgn == IF d < 0 THEN -1 ELSE 1
         IN  [n |-> sgn * (n \div g), d |-> sgn * (d \div g)]

RatMul(a, b) ==
    IF a.d = 0 \/ b.d = 0 THEN DivError
    ELSE LET g1 == GCD(a.n, b.d)
             g2 == GCD(b.n, a.d)
         IN  Rat((a.n \div g1) * (b.n \div g2), (a.d \div g2) * (b.d \div g1))

RatDiv(a, b) ==
    IF a.d = 0 \/ b.d = 0 \/ b.n = 0 THEN DivError
    ELSE RatMul(a, Rat(b.d, b.n))

RatAdd(a, b) ==
    IF a.d = 0 \/ b.d = 0 THEN DivError
    ELSE LET l == (a.d \div GCD(a.d, b.d)) * b.d
         IN  Rat(a.n * (l \div a.d) + b.n * (l \div b.d), l)

RatSub(a, b) == RatAdd(a, [n |-> -b.n, d |-> b.d])

RECURSIVE RatSum(_)
RatSum(s) == IF s = <<>> THEN Rat(0, 1) ELSE RatAdd(Head(s), RatSum(Tail(s)))

\* round(x, k) in units of 1 / scale, scale = 10 ** k
RatRound(x, scale) ==
    IF x.d = 0 THEN NaN
    ELSE LET m == RatMul(x, Rat(scale, 1)) IN RoundDiv(m.n, m.d)

(***************************************************************************)
(* Emission factors (apa_calculator.get_plant_ef), in 0.001 tCO2/t          *)
(***************************************************************************)
EF_REFERENCE_YEAR == 2020

\* (1 - EF_BF_BOF_ANNUAL_IMPROVEMENT) ** n, in units of 0.00001
RECURSIVE Adjustment(_)
Adjustment(n) ==
    IF n = 0 THEN 100000
    ELSE IF n > 0 THEN RoundDiv(Adjustment(n - 1) * 995, 1000)
    ELSE RoundDiv(Adjustment(n + 1) * 1000, 995)

get_ef_region(country) ==
    CASE country = "Japan" -> "Japan"
      [] country = "India" -> "India"
      [] country = "United States" -> "United States"
      [] country = "Germany" -> "EU"
      [] OTHER -> "Global"

EF_BF_BOF(region) ==
    CASE region = "Japan" -> 2050
      [] region = "India" -> 3720
      [] region = "United States" -> 1940
      [] region = "EU" -> 1770
      [] OTHER -> 2314

EF_EAF(region) ==
    CASE region = "Japan" -> 40
      [] region = "India" -> 70
      [] region = "United States" -> 40
      [] region = "EU" -> 40
      [] OTHER -> 51

DRI_COAL_COUNTRIES == {"India", "China", "South Africa", "New Zealand"}

\* the substring tests of get_plant_ef on process.lower(), per process label
HasDri(process) == process \in {"DRI", "DRI-gas", "DRI-coal", "DRI-H2", "H2-DRI"}
HasH2(process) == process \in {"DRI-H2", "H2-DRI"}
\* the test of line 291 answering no for every label
HasEafNever(process) == FALSE

HasEaf(process) == process \in {"EAF", "Scrap-EAF"}

get_plant_ef(country, process, year) ==
    LET region == get_ef_region(country)
    IN  IF HasDri(process) /\ ~HasH2(process)
        THEN IF country \in DRI_COAL_COUNTRIES THEN 3100 ELSE 1050
        ELSE IF HasEaf(process) THEN EF_EAF(region)
        ELSE IF HasH2(process) THEN 40
        ELSE IF notna(year)
             THEN RoundDiv(EF_BF_BOF(region) * Adjustment(year - EF_REFERENCE_YEAR),
                           100000)
             ELSE EF_BF_BOF(region)

(***************************************************************************)
(* Emission-factor specification: one (country, process, year) triple,      *)
(* drawn once, and calls of get_plant_ef on it.  The process labels are     *)
(* those of _determine_process and of filter_steel_making_units             *)
(***************************************************************************)
EfCountries ==
    {"Japan", "India", "United States", "Germany", "China", "Iran", "Brazil"}

EfProcesses ==
    {"BF-BOF", "EAF", "DRI", "H2-DRI", "Scrap-EAF", "DRI-gas", "DRI-coal",
     "DRI-H2"}

EfYears == 2014..(2024 + Horizon)

InitEf ==
    /\ units_df = <<>>
    /\ inputs \in [country : EfCountries, process : EfProcesses,
                   year : {NaN} \cup EfYears]
    /\ tp_detail = <<>>
    /\ bau_detail = <<>>
    /\ ret = [op |-> "none"]

GetPlantEf ==
    /\ ret' = [op |-> "get_plant_ef",
               ef |-> get_plant_ef(inputs.country, inputs.process, inputs.year)]
    /\ UNCHANGED <<units_df, inputs, tp_detail, bau_detail>>

SpecEf == InitEf /\ [][GetPlantEf]_vars

\* C22: for the primary route (BF-BOF) the factor without a year and at the
\* reference year is the region's base, and the factor of each following
\* year is 0.995 times the factor of the year, to three decimals, so it
\* strictly decreases with the year; for every other technology class the
\* factor is the same for every year and for no year
C22_OnlyPrimaryRouteTimeAdjusted ==
    ret.op = "get_plant_ef" =>
        LET base == get_plant_ef(inputs.country, inputs.process, NaN)
            next == get_plant_ef(inputs.country, inputs.process, inputs.year + 1)
        IN  IF inputs.process = "BF-BOF"
            THEN /\ base = EF_BF_BOF(get_ef_region(inputs.country))
                 /\ inputs.year = NaN => ret.ef = base
                 /\ inputs.year = EF_REFERENCE_YEAR => ret.ef = base
                 /\ notna(inputs.year) =>
                       /\ next < ret.ef
                       /\ next - RoundDiv(ret.ef * 995, 1000) \in {-1, 0, 1}
                       /\ (inputs.year > EF_REFERENCE_YEAR) = (ret.ef < base)
                       /\ (inputs.year < EF_REFERENCE_YEAR) = (ret.ef > base)
            ELSE /\ ret.ef = base
                 /\ \A y \in EfYears :
                       get_plant_ef(inputs.country, inputs.process, y) = base

\* the primary route some years after the reference year, below the base
C22_Witness ==
    /\ ret.op = "get_plant_ef"
    /\ inputs.process = "BF-BOF"
    /\ inputs.country = "Japan"
    /\ inputs.year = 2024
    /\ ret.ef = 2009

(***************************************************************************)
(* Lifecycle filter                                                         *)
(***************************************************************************)
\* apa_calculator.get_plants_for_year: the three masks, or-ed
PlantActiveInYear(p, year) ==
    LET started == notna(p.start_year) /\ p.start_year <= year
        operating_mask ==
            p.status \in {"operating", "operating pre-retirement"} /\ started
        construction_mask == p.status = "construction" /\ started
        retired_mask == p.status \in {"retired", "mothballed"} /\ started
    IN  operating_mask \/ construction_mask \/ retired_mask

Reverse(s) == [i \in 1..Len(s) |-> s[Len(s) + 1 - i]]

\* get_plants_for_year handing its rows back last-first
get_plants_for_year_reversed(all_plants, year) ==
    IF all_plants = <<>> THEN all_plants
    ELSE Reverse(SelectSeq(all_plants, LAMBDA p : PlantActiveInYear(p, year)))

get_plants_for_year(all_plants, year) ==
    IF all_plants = <<>> THEN all_plants
    ELSE SelectSeq(all_plants, LAMBDA p : PlantActiveInYear(p, year))

\* gem_closure_tp._infer_close_year
infer_close_year(u) ==
    IF u.status \in {"retired", "mothballed"}
    THEN IF notna(u.retired_year) THEN u.retired_year ELSE RetiredNoDateYear
    ELSE IF u.status = "operating pre-retirement"
    THEN IF notna(u.retired_year) THEN u.retired_year
         ELSE IF notna(u.pre_retirement_announced_year)
              THEN u.pre_retirement_announced_year + PreRetirementLag
              ELSE PreRetirementDefaultYear
    ELSE NaN

\* _unit_is_active without its test of the cancelled status
unit_is_active_ignoring_cancelled(u, year, close_year) ==
    IF notna(u.start_year) /\ u.start_year > year THEN FALSE
    ELSE IF notna(close_year) /\ close_year <= year THEN FALSE
    ELSE TRUE

\* gem_closure_tp._unit_is_active
unit_is_active(u, year, close_year) ==
    IF u.status = "cancelled" THEN FALSE
    ELSE IF notna(u.start_year) /\ u.start_year > year THEN FALSE
    ELSE IF notna(close_year) /\ close_year <= year THEN FALSE
    ELSE TRUE

(***************************************************************************)
(* Entity resolution: the regular expressions of COMPANY_GEM_PATTERNS and   *)
(* COMPANY_PLANT_NAME_PATTERNS, tabulated over the owner texts and plant    *)
(* names the model draws from (re.search, case-insensitive)                 *)
(***************************************************************************)
OwnerTexts ==
    {"Nippon Steel Corp", "United States Steel Corp", "ArcelorMittal SA",
     "Tosyali Holding AS"}

PlantNames == {"U.S. Steel Gary Works", "Kimitsu steel plant"}

Companies == {"Nippon Steel", "US Steel", "ArcelorMittal"}

\* re.search(COMPANY_GEM_PATTERNS[company], text, IGNORECASE)
OwnerPatternMatches(company, text) ==
    \/ company = "Nippon Steel" /\ text = "Nippon Steel Corp"
    \/ company = "US Steel" /\ text = "United States Steel Corp"
    \/ company = "ArcelorMittal" /\ text = "ArcelorMittal SA"

\* the "[XX.X%]" annotations of the Parent field
PctTokens == {"[40.0%]", "[50.0%]", "[60.0%]", "[100.0%]"}

\* plants_df["parent"].str.contains(pattern, case=False, na=False): the
\* Parent text is a sequence of tokens (an owner text, a "[XX.X%]"
\* annotation or a ";"), and no pattern matches across two tokens
ParentContains(parent, company) ==
    \E i \in 1..Len(parent) : OwnerPatternMatches(company, parent[i])

\* kampmann_audit.match_units_to_company
match_units_to_company(units, company) ==
    SelectSeq(units, LAMBDA u : ParentContains(u.parent, company))

(***************************************************************************)
(* Trajectory builders                                                      *)
(***************************************************************************)
\* one detail row of build_plant_level_tp (lines 298-325); base_ur is a
\* fraction, production_mt and emissions_mt are in units of 0.0001 Mt
TpRow(u, year, base_ur) ==
    [year |-> year,
     id |-> u.id,
     country |-> u.country,
     process_type |-> u.process_type,
     unit_status |-> u.status,
     capacity_ttpa |-> u.capacity_ttpa,
     production_mt |-> RatRound(RatMul(Rat(u.capacity_ttpa, 1000), base_ur), 10000),
     emissions_mt |->
        RatRound(RatMul(RatMul(Rat(u.capacity_ttpa, 1000), base_ur),
                        Rat(get_plant_ef(u.country, u.process_type, year), 1000)),
                 10000)]

\* the close_year column with the sense of skip_closures inverted
CloseYearColumnInverted(u, skip_closures) ==
    IF skip_closures THEN infer_close_year(u) ELSE NaN

\* the close_year column (lines 283-289)
CloseYearColumn(u, skip_closures) ==
    IF skip_closures THEN NaN ELSE infer_close_year(u)

\* the units of a frame that pass _unit_is_active in a year, under a policy
\* (lines 283-296: the close_year column, then the test of each row in order)
ActiveUnitsOf(company_units, year, skip_closures) ==
    SelectSeq(company_units,
              LAMBDA u : unit_is_active(u, year, CloseYearColumn(u, skip_closures)))

\* the rows appended for one year (lines 294-325)
TpYearRows(company_units, year, base_ur, skip_closures) ==
    MapSeq(SelectSeq(company_units,
                     LAMBDA u :
                         /\ unit_is_active(u, year, CloseYearColumn(u, skip_closures))
                         /\ notna(u.capacity_ttpa)
                         /\ u.capacity_ttpa > 0),
           LAMBDA u : TpRow(u, year, base_ur))

RECURSIVE TpRowsFrom(_, _, _, _, _)
TpRowsFrom(company_units, year, end_year, base_ur, skip_closures) ==
    IF year > end_year THEN <<>>
    ELSE TpYearRows(company_units, year, base_ur, skip_closures)
         \o TpRowsFrom(company_units, year + 1, end_year, base_ur, skip_closures)

\* gem_closure_tp.build_plant_level_tp; the empty frame is <<>>
build_plant_level_tp(steel_units, company, base_year, end_year, base_ur, skip_closures) ==
    LET company_units == match_units_to_company(steel_units, company)
    IN  IF company_units = <<>> THEN <<>>
        ELSE TpRowsFrom(company_units, base_year, end_year, base_ur, skip_closures)

\* kampmann_audit.build_closure_inventory: the inferred_close_year of a unit
inventory_close_year(u) ==
    IF u.status \in {"retired", "mothballed"}
    THEN IF notna(u.retired_year) THEN u.retired_year
         ELSE InventoryRetiredNoDateYear
    ELSE IF u.status = "operating pre-retirement"
    THEN IF notna(u.retired_year) THEN u.retired_year
         ELSE IF notna(u.pre_retirement_announced_year)
              THEN u.pre_retirement_announced_year + PreRetirementLag
              ELSE PreRetirementDefaultYear
    ELSE NaN

\* kampmann_audit.build_closure_inventory, the rows of one company
build_closure_inventory(units, company) ==
    MapSeq(match_units_to_company(units, company),
           LAMBDA u : [id |-> u.id, inferred_close_year |-> inventory_close_year(u)])

\* close_map of build_gem_closure_trajectory (lines 409-415), as the set of
\* <<unit id, close year>> pairs
CloseMap(company_closures) ==
    {<<company_closures[i].id, company_closures[i].inferred_close_year>> :
        i \in {j \in 1..Len(company_closures) :
                  notna(company_closures[j].inferred_close_year)}}

\* the per-unit test of build_gem_closure_trajectory (lines 422-445)
TrajectoryCounts(u, year, close_map) ==
    IF notna(u.start_year) /\ u.start_year > year THEN FALSE
    ELSE IF u.status \in {"cancelled", "announced"} THEN FALSE
    ELSE IF \E c \in close_map : c[1] = u.id /\ c[2] <= year THEN FALSE
    ELSE IF u.status \in {"retired", "mothballed"}
            /\ ~(\E c \in close_map : c[1] = u.id) THEN FALSE
    ELSE TRUE

\* one row of the trajectory (lines 447-483), quantities in 0.001 Mt
TrajectoryRow(company_units, year, close_map, ur) ==
    LET active_units ==
            SelectSeq(company_units, LAMBDA u : TrajectoryCounts(u, year, close_map))
    IN  IF active_units = <<>>
        THEN [year |-> year, ids |-> {},
              gem_tp_production_mt |-> 0, gem_tp_emissions_mt |-> 0,
              active_capacity_ttpa |-> 0, n_active_units |-> 0]
        ELSE [year |-> year, ids |-> Ids(active_units),
              gem_tp_production_mt |->
                  RoundDiv(SumSeq(MapSeq(active_units,
                                         LAMBDA u : u.capacity_ttpa)) * ur, 100),
              gem_tp_emissions_mt |->
                  RoundDiv(SumSeq(MapSeq(active_units,
                      LAMBDA u : u.capacity_ttpa * ur
                                   * get_plant_ef(u.country, u.process_type, year))),
                      100000),
              active_capacity_ttpa |->
                  SumSeq(MapSeq(active_units, LAMBDA u : u.capacity_ttpa)),
              n_active_units |-> Len(active_units)]

\* kampmann_audit.build_gem_closure_trajectory
build_gem_closure_trajectory(units, company, base_year, end_year, ur) ==
    LET company_units == match_units_to_company(units, company)
        close_map == CloseMap(build_closure_inventory(units, company))
    IN  IF company_units = <<>> THEN <<>>
        ELSE [k \in 1..(end_year - base_year + 1) |->
                 TrajectoryRow(company_units, base_year + k - 1, close_map, ur)]

(***************************************************************************)
(* Lifecycle specification: one registry snapshot, drawn once, and the      *)
(* functions that decide which of its units are active                      *)
(***************************************************************************)
Years == BaseYear..EndYear

\* the years the registry is filtered for
QueryYears == {BaseYear, BaseYear + 2, EndYear}

\* the Parent field "<text> [100.0%]"
SoleOwner(text) == <<text, "[100.0%]">>

\* the date and capacity columns a unit of each status is drawn with
LifeProfiles ==
    [status : {"operating"}, start_year : {NaN, 2000},
     pre_retirement_announced_year : {NaN}, retired_year : {NaN},
     capacity_ttpa : {1000}]
    \cup
    [status : {"operating"}, start_year : {2000},
     pre_retirement_announced_year : {NaN}, retired_year : {NaN},
     capacity_ttpa : {0}]
    \cup
    [status : {"operating pre-retirement"}, start_year : {2000},
     pre_retirement_announced_year : {NaN, 2021}, retired_year : {NaN, 2027},
     capacity_ttpa : {1000}]
    \cup
    [status : {"retired"}, start_year : {2000},
     pre_retirement_announced_year : {NaN}, retired_year : {NaN, 2020, 2026},
     capacity_ttpa : {1000}]
    \cup
    [status : {"mothballed"}, start_year : {2000},
     pre_retirement_announced_year : {NaN}, retired_year : {2026},
     capacity_ttpa : {1000}]
    \cup
    [status : {"construction", "announced"}, start_year : {NaN, 2026},
     pre_retirement_announced_year : {NaN}, retired_year : {NaN},
     capacity_ttpa : {1000}]
    \cup
    [status : {"cancelled"}, start_year : {NaN, 2000},
     pre_retirement_announced_year : {NaN}, retired_year : {NaN},
     capacity_ttpa : {1000}]

LifeRow(i, p) ==
    [id |-> i, status |-> p.status, start_year |-> p.start_year,
     pre_retirement_announced_year |-> p.pre_retirement_announced_year,
     retired_year |-> p.retired_year, capacity_ttpa |-> p.capacity_ttpa,
     country |-> "Japan", process_type |-> "BF-BOF",
     parent |-> SoleOwner("Nippon Steel Corp"),
     plant_name |-> "Kimitsu steel plant"]

LifeFrames ==
    UNION {{[i \in 1..n |-> LifeRow(i, f[i])] : f \in [1..n -> LifeProfiles]} :
              n \in 0..MaxUnits}

\* no call made yet; repeat says that the call repeats an earlier one (same
\* function, same arguments), and before is what that one returned
NoCall ==
    [op |-> "none", year |-> NaN, skip_closures |-> FALSE, arg |-> <<>>,
     rows |-> <<>>, repeat |-> FALSE, before |-> <<>>]

NotBuilt == [built |-> FALSE, rows |-> <<>>]

InitLife ==
    /\ units_df \in LifeFrames
    /\ inputs = [company |-> "Nippon Steel"]
    /\ tp_detail = NotBuilt
    /\ bau_detail = NotBuilt
    /\ ret = NoCall

\* gem_closure_tp.generate_all_tp -> build_plant_level_tp(skip_closures=False);
\* main() runs it once
BuildTp ==
    /\ ~tp_detail.built
    /\ tp_detail' =
          [built |-> TRUE,
           rows |-> build_plant_level_tp(units_df, inputs.company, BaseYear,
                                         EndYear, Rat(DefaultUrPct, 100), FALSE)]
    /\ UNCHANGED <<units_df, inputs, bau_detail, ret>>

\* gem_closure_tp.generate_all_bau -> build_plant_level_tp(skip_closures=True);
\* main() runs it after generate_all_tp, on the same steel_units
BuildBau ==
    /\ tp_detail.built
    /\ ~bau_detail.built
    /\ bau_detail' =
          [built |-> TRUE,
           rows |-> build_plant_level_tp(units_df, inputs.company, BaseYear,
                                         EndYear, Rat(DefaultUrPct, 100), TRUE)]
    /\ UNCHANGED <<units_df, inputs, tp_detail, ret>>

\* a call of kampmann_audit.build_gem_closure_trajectory over the horizon, at
\* the utilization rate run_audit falls back to
BuildGemTrajectory ==
    /\ ret' = [NoCall EXCEPT
                  !.op = "build_gem_closure_trajectory",
                  !.arg = units_df,
                  !.rows = build_gem_closure_trajectory(
                               units_df, inputs.company, BaseYear, EndYear,
                               DefaultUrPct)]
    /\ UNCHANGED <<units_df, inputs, tp_detail, bau_detail>>

\* a call get_plants_for_year(all_plants, y) on the registry
GetPlantsForYear ==
    \E y \in QueryYears :
        /\ ret' = [NoCall EXCEPT
                      !.op = "get_plants_for_year",
                      !.year = y,
                      !.arg = units_df,
                      !.rows = get_plants_for_year(units_df, y)]
        /\ UNCHANGED <<units_df, inputs, tp_detail, bau_detail>>

NextLife == BuildTp \/ BuildBau \/ BuildGemTrajectory \/ GetPlantsForYear

SpecLife == InitLife /\ [][NextLife]_vars

(***************************************************************************)
(* Properties of the lifecycle filter and the trajectory builders           *)
(***************************************************************************)
RowsOfYear(rows, y) == SelectSeq(rows, LAMBDA r : r.year = y)

CancelledIds == {units_df[i].id : i \in {j \in 1..Len(units_df) :
                                            units_df[j].status = "cancelled"}}

\* C3: a cancelled unit is in no active set: get_plants_for_year does not
\* return it, build_plant_level_tp (through _unit_is_active) emits it under
\* neither policy in any year, build_gem_closure_trajectory counts it in no year
C3_CancelledNeverActive ==
    /\ ret.op = "get_plants_for_year" => Ids(ret.rows) \cap CancelledIds = {}
    /\ Ids(tp_detail.rows) \cap CancelledIds = {}
    /\ Ids(bau_detail.rows) \cap CancelledIds = {}
    /\ ret.op = "build_gem_closure_trajectory" =>
          \A k \in 1..Len(ret.rows) : ret.rows[k].ids \cap CancelledIds = {}

\* a cancelled unit that had started, next to a unit that is active, after
\* both policies were projected and the registry was filtered
C3_Witness ==
    /\ \E i \in 1..Len(units_df) :
          units_df[i].status = "cancelled" /\ units_df[i].start_year = 2000
    /\ tp_detail.built /\ tp_detail.rows # <<>>
    /\ bau_detail.built /\ bau_detail.rows # <<>>
    /\ ret.op = "get_plants_for_year" /\ ret.rows # <<>>

\* C4: in every year of the horizon the units emitted under planned
\* transition are among those emitted under no-closure, and a construction
\* or announced unit is emitted in the same years under both policies
C4_NoClosureSuperset ==
    (tp_detail.built /\ bau_detail.built) =>
        \A y \in Years :
            /\ Ids(RowsOfYear(tp_detail.rows, y)) \subseteq
                  Ids(RowsOfYear(bau_detail.rows, y))
            /\ \A i \in 1..Len(units_df) :
                  units_df[i].status \in {"construction", "announced"} =>
                      (units_df[i].id \in Ids(RowsOfYear(tp_detail.rows, y))
                          <=> units_df[i].id \in Ids(RowsOfYear(bau_detail.rows, y)))

\* a unit closes under planned transition only, and a construction unit
\* comes online in 2026 under both policies
C4_Witness ==
    /\ tp_detail.built /\ bau_detail.built
    /\ \E y \in Years :
          Ids(RowsOfYear(tp_detail.rows, y)) # Ids(RowsOfYear(bau_detail.rows, y))
    /\ \E i \in 1..Len(units_df) :
          /\ units_df[i].status = "construction"
          /\ units_df[i].id \notin Ids(RowsOfYear(bau_detail.rows, 2025))
          /\ units_df[i].id \in Ids(RowsOfYear(tp_detail.rows, 2026))
          /\ units_df[i].id \in Ids(RowsOfYear(bau_detail.rows, 2026))

\* C9: the trajectory builders emit no record for an (entity, year) without
\* active capacity: every detail row of build_plant_level_tp and every row of
\* build_gem_closure_trajectory stands on a positive active capacity
C9_AbsentNeverZero ==
    /\ \A k \in 1..Len(tp_detail.rows) : tp_detail.rows[k].capacity_ttpa > 0
    /\ \A k \in 1..Len(bau_detail.rows) : bau_detail.rows[k].capacity_ttpa > 0
    /\ ret.op = "build_gem_closure_trajectory" =>
          \A k \in 1..Len(ret.rows) : ret.rows[k].active_capacity_ttpa > 0

\* load_all_gem_plants, lines 543-554: the start year of a plant row after
\* the defaults for a missing one
WithStartYearDefault(p) ==
    [p EXCEPT !.start_year =
        IF notna(p.start_year) THEN p.start_year
        ELSE IF p.status \in {"operating", "operating pre-retirement"} THEN 2000
        ELSE IF p.status \in {"retired", "mothballed"} THEN 2000
        ELSE IF p.status = "construction" THEN 2025
        ELSE NaN]

\* the units of the registry without a start year, by status
NoStartYear(statuses) ==
    {i \in 1..Len(units_df) :
        units_df[i].start_year = NaN /\ units_df[i].status \in statuses}

\* C24: an operating or pre-retirement unit without a start year counts as
\* started in 2014, and a construction unit without a start year is active
\* in no year up to 2024: get_plants_for_year does not return it from the
\* loaded plant frame, and build_plant_level_tp (through _unit_is_active)
\* emits no row for it in 2024 under either policy
C24_MissingStartYearDefaults ==
    /\ \A i \in NoStartYear({"operating", "operating pre-retirement"}) :
          units_df[i].id
              \in Ids(get_plants_for_year(MapSeq(units_df, WithStartYearDefault),
                                          2014))
    /\ \A i \in NoStartYear({"construction"}) :
          /\ \A y \in 2014..2024 :
                units_df[i].id
                    \notin Ids(get_plants_for_year(
                                   MapSeq(units_df, WithStartYearDefault), y))
          /\ units_df[i].id \notin Ids(RowsOfYear(tp_detail.rows, 2024))
          /\ units_df[i].id \notin Ids(RowsOfYear(bau_detail.rows, 2024))

\* the retired and mothballed units whose closure year, given or inferred,
\* is at or before the base year
ClosedByBaseYear ==
    {units_df[i].id : i \in {j \in 1..Len(units_df) :
        /\ units_df[j].status \in {"retired", "mothballed"}
        /\ infer_close_year(units_df[j]) <= BaseYear}}

\* C27: a retired or mothballed unit whose closure year (given or inferred)
\* is at or before the base year has no row in any projected year, under
\* planned transition and under no-closure
C27_ClosedUnitsStayClosed ==
    /\ Ids(tp_detail.rows) \cap ClosedByBaseYear = {}
    /\ Ids(bau_detail.rows) \cap ClosedByBaseYear = {}

(***************************************************************************)
(* Filter specification: the two active-unit filters, called on the         *)
(* registry, called again with the same arguments, and called on their own  *)
(* result                                                                   *)
(***************************************************************************)
InitFilter == InitLife

\* the call before, made once more with the same arguments, after any
\* number of other calls
RepeatCall ==
    /\ ret.op \in {"get_plants_for_year", "unit_is_active"}
    /\ ret' = [ret EXCEPT
                  !.rows = IF ret.op = "get_plants_for_year"
                           THEN get_plants_for_year(units_df, ret.year)
                           ELSE ActiveUnitsOf(units_df, ret.year, ret.skip_closures),
                  !.repeat = TRUE,
                  !.before = ret.rows]
    /\ UNCHANGED <<units_df, inputs, tp_detail, bau_detail>>

\* get_plants_for_year on the frame the previous call returned, same year
FilterAgain ==
    /\ ret.op = "get_plants_for_year"
    /\ ret' = [ret EXCEPT
                  !.op = "get_plants_for_year_again",
                  !.arg = ret.rows,
                  !.rows = get_plants_for_year(ret.rows, ret.year),
                  !.repeat = FALSE,
                  !.before = ret.rows]
    /\ UNCHANGED <<units_df, inputs, tp_detail, bau_detail>>

\* _unit_is_active over the registry, for a year and a policy
ActiveUnits ==
    \E y \in QueryYears, skip \in BOOLEAN :
        /\ ret' = [NoCall EXCEPT
                      !.op = "unit_is_active",
                      !.year = y,
                      !.skip_closures = skip,
                      !.arg = units_df,
                      !.rows = ActiveUnitsOf(units_df, y, skip)]
        /\ UNCHANGED <<units_df, inputs, tp_detail, bau_detail>>

\* _unit_is_active over the units the previous call kept, same year and policy
ActiveAgain ==
    /\ ret.op = "unit_is_active"
    /\ ret' = [ret EXCEPT
                  !.op = "unit_is_active_again",
                  !.arg = ret.rows,
                  !.rows = ActiveUnitsOf(ret.rows, ret.year, ret.skip_closures),
                  !.repeat = FALSE,
                  !.before = ret.rows]
    /\ UNCHANGED <<units_df, inputs, tp_detail, bau_detail>>

NextFilter ==
    GetPlantsForYear \/ RepeatCall \/ FilterAgain \/ ActiveUnits \/ ActiveAgain

SpecFilter == InitFilter /\ [][NextFilter]_vars

FilterOps ==
    {"get_plants_for_year", "get_plants_for_year_again",
     "unit_is_active", "unit_is_active_again"}

\* rows are rows of arg, in the order arg has them
KeepsOrder(rows, arg) ==
    /\ \A i \in 1..Len(rows) : \E j \in 1..Len(arg) : rows[i] = arg[j]
    /\ \A i, j \in 1..Len(rows) : i < j => rows[i].id < rows[j].id

YearAcquired == 2024

OWNERSHIP_TRANSFERS ==
    {[acquirer |-> "Nippon Steel", target |-> "US Steel",
      year_acquired |-> YearAcquired]}

\* re.search(r"U\.?S\.?\s*Steel", plant_name, IGNORECASE): the pattern of
\* COMPANY_PLANT_NAME_PATTERNS["US Steel"] and of the transfer's
\* target_plant_pattern, over PlantNames
TargetPlantPattern(plant_name) == plant_name = "U.S. Steel Gary Works"

COMPANY_PLANT_NAME_PATTERNS == {"US Steel"}

\* the rows left after the transfer loop (lines 689-703)
ExcludeTransferred(result, company, year) ==
    IF notna(year) /\ result # <<>>
          /\ \E t \in OWNERSHIP_TRANSFERS :
                t.acquirer = company /\ year < t.year_acquired
    THEN SelectSeq(result, LAMBDA p : ~TargetPlantPattern(p.plant_name))
    ELSE result

get_company_plants(plants_df, company, year) ==
    LET matched == SelectSeq(plants_df, LAMBDA p : ParentContains(p.parent, company))
        result == ExcludeTransferred(matched, company, year)
    IN  IF result = <<>> /\ company \in COMPANY_PLANT_NAME_PATTERNS
        THEN SelectSeq(plants_df, LAMBDA p : TargetPlantPattern(p.plant_name))
        ELSE result

(***************************************************************************)
(* Output allocator (apa_calculator.calculate_company_emissions).           *)
(* production_mt and the values of country_production are in 0.001 Mt;    *)
(* country_production is a function from the countries it has a key for    *)
(* (None and {} are both the function with no key)                          *)
(***************************************************************************)
\* capacity_mt with every capacity above 10 Mt/yr counted as 10
capacity_mt_capped(p) ==
    Rat(IF p.capacity_ttpa > 10000 THEN 10000 ELSE p.capacity_ttpa, 1000)

capacity_mt(p) == Rat(p.capacity_ttpa, 1000)

\* the guard of line 767 with < for <=
NoCapacityStrict(total_capacity_mt) == total_capacity_mt.n < 0

\* line 767: if total_capacity_mt <= 0
NoCapacity(total_capacity_mt) == total_capacity_mt.n <= 0

\* line 799: if country_cap > 0 and mask.any()
RegionGuard(country_cap, mask_any) == country_cap.n > 0 /\ mask_any

\* the guard of line 806 without the test of the residual's sign
ResidualGuardAnySign(remaining_production, unmatched_any) == unmatched_any

\* line 806: if remaining_production > 0 and unmatched_mask.any()
ResidualGuard(remaining_production, unmatched_any) ==
    remaining_production.n > 0 /\ unmatched_any

\* line 808: if unmatched_cap > 0
UnmatchedCapGuard(unmatched_cap) == unmatched_cap.n > 0

\* breakdown.loc[mask, "capacity_mt"].sum() over the rows a predicate keeps
CapacityOf(breakdown, Keep(_)) ==
    RatSum(MapSeq(SelectSeq(breakdown, Keep), capacity_mt))

CountryCap(breakdown, country) ==
    CapacityOf(breakdown, LAMBDA p : p.country = country)

\* the countries whose pass of the loop of lines 796-803 assigns a rate
MatchedCountries(breakdown, country_production) ==
    {c \in DOMAIN country_production :
        RegionGuard(CountryCap(breakdown, c),
                    \E i \in 1..Len(breakdown) : breakdown[i].country = c)}

RECURSIVE SumOver(_, _)
SumOver(f, S) ==
    IF S = {} THEN 0
    ELSE LET c == CHOOSE x \in S : TRUE IN f[c] + SumOver(f, S \ {c})

\* the target split evenly over the units, whatever their capacity
AllocatedEqualSplit(breakdown, production_mt, country_production, ur) ==
    [i \in 1..Len(breakdown) |-> Rat(production_mt, 1000 * Len(breakdown))]

\* the column allocated_production_mt (lines 786-817)
Allocated(breakdown, production_mt, country_production, ur) ==
    IF DOMAIN country_production # {}
    THEN LET matched == MatchedCountries(breakdown, country_production)
             remaining_production ==
                 Rat(production_mt - SumOver(country_production, matched), 1000)
             Unmatched(p) == p.country \notin matched
             unmatched_cap == CapacityOf(breakdown, Unmatched)
             residual ==
                 /\ ResidualGuard(remaining_production,
                                  \E i \in 1..Len(breakdown) : Unmatched(breakdown[i]))
                 /\ UnmatchedCapGuard(unmatched_cap)
         IN  [i \in 1..Len(breakdown) |->
                 IF breakdown[i].country \in matched
                 THEN RatMul(capacity_mt(breakdown[i]),
                             RatDiv(Rat(country_production[breakdown[i].country], 1000),
                                    CountryCap(breakdown, breakdown[i].country)))
                 ELSE IF residual
                 THEN RatMul(capacity_mt(breakdown[i]),
                             RatDiv(remaining_production, unmatched_cap))
                 ELSE Rat(0, 1)]
    ELSE [i \in 1..Len(breakdown) |-> RatMul(capacity_mt(breakdown[i]), ur)]

\* the divisors of the divisions the call performs, in the order of the code
Divisors(breakdown, production_mt, country_production, total_capacity_mt) ==
    LET matched == MatchedCountries(breakdown, country_production)
        remaining_production ==
            Rat(production_mt - SumOver(country_production, matched), 1000)
        Unmatched(p) == p.country \notin matched
        unmatched_cap == CapacityOf(breakdown, Unmatched)
    IN  {total_capacity_mt}
        \cup {CountryCap(breakdown, c) : c \in matched}
        \cup (IF DOMAIN country_production # {}
                 /\ ResidualGuard(remaining_production,
                                  \E i \in 1..Len(breakdown) : Unmatched(breakdown[i]))
                 /\ UnmatchedCapGuard(unmatched_cap)
              THEN {unmatched_cap} ELSE {})
        \cup (IF production_mt > 0 THEN {Rat(production_mt, 1000)} ELSE {})

None ==
    [none |-> TRUE, production_mt |-> NaN, total_capacity_mt |-> NaN,
     utilization_rate |-> NaN, emissions_mt |-> NaN, weighted_ef |-> NaN,
     n_plants |-> 0, plant_breakdown |-> <<>>, divisors |-> {}]

calculate_company_emissions(plants_df, company, production_mt, year, country_production) ==
    LET company_plants == get_company_plants(plants_df, company, year)
        total_capacity_mt == RatSum(MapSeq(company_plants, capacity_mt))
        ur == RatDiv(Rat(production_mt, 1000), total_capacity_mt)
        allocated == Allocated(company_plants, production_mt, country_production, ur)
        ef == [i \in 1..Len(company_plants) |->
                  IF notna(year)
                  THEN get_plant_ef(company_plants[i].country,
                                    company_plants[i].process, year)
                  ELSE company_plants[i].ef]
        breakdown ==
            [i \in 1..Len(company_plants) |->
                [id |-> company_plants[i].id,
                 country |-> company_plants[i].country,
                 process |-> company_plants[i].process,
                 capacity_ttpa |-> company_plants[i].capacity_ttpa,
                 ef |-> ef[i],
                 allocated_production_mt |-> allocated[i],
                 emissions_mt |-> RatMul(allocated[i], Rat(ef[i], 1000))]]
        total_emissions == RatSum(MapSeq(breakdown, LAMBDA r : r.emissions_mt))
        weighted_ef ==
            IF production_mt > 0
            THEN RatDiv(total_emissions, Rat(production_mt, 1000))
            ELSE Rat(0, 1)
    IN  IF company_plants = <<>> THEN None
        ELSE IF NoCapacity(total_capacity_mt) THEN None
        ELSE [none |-> FALSE,
              production_mt |-> production_mt,
              total_capacity_mt |-> RatRound(total_capacity_mt, 1000),
              utilization_rate |-> RatRound(ur, 10000),
              emissions_mt |-> RatRound(total_emissions, 1000),
              weighted_ef |-> RatRound(weighted_ef, 1000),
              n_plants |-> Len(company_plants),
              plant_breakdown |-> breakdown,
              divisors |-> Divisors(company_plants, production_mt,
                                    country_production, total_capacity_mt)]

(***************************************************************************)
(* Allocator specification: a plant frame, drawn once, and calls of         *)
(* calculate_company_emissions on it.  The frame is handed to the function  *)
(* directly, so it may hold rows of capacity zero or below, which           *)
(* load_all_gem_plants would have dropped                                   *)
(***************************************************************************)
AllocProfiles ==
    {[country |-> "Japan", process |-> "BF-BOF", capacity_ttpa |-> 10000,
      owner |-> "Nippon Steel Corp"],
     [country |-> "Japan", process |-> "EAF", capacity_ttpa |-> 5000,
      owner |-> "Nippon Steel Corp"],
     [country |-> "India", process |-> "BF-BOF", capacity_ttpa |-> 5000,
      owner |-> "Nippon Steel Corp"],
     [country |-> "India", process |-> "EAF", capacity_ttpa |-> 10000,
      owner |-> "Nippon Steel Corp"],
     [country |-> "Japan", process |-> "BF-BOF", capacity_ttpa |-> 0,
      owner |-> "Nippon Steel Corp"],
     [country |-> "Japan", process |-> "BF-BOF", capacity_ttpa |-> -5000,
      owner |-> "Nippon Steel Corp"],
     [country |-> "Japan", process |-> "BF-BOF", capacity_ttpa |-> 5000,
      owner |-> "ArcelorMittal SA"]}

\* a row of load_all_gem_plants (lines 560-590); ef is the static factor
AllocRow(i, p) ==
    [id |-> i, plant_name |-> "Kimitsu steel plant", country |-> p.country,
     process |-> p.process, capacity_ttpa |-> p.capacity_ttpa,
     ef |-> get_plant_ef(p.country, p.process, NaN),
     parent |-> SoleOwner(p.owner), status |-> "operating", start_year |-> 2000]

AllocFrames ==
    UNION {{[i \in 1..n |-> AllocRow(i, f[i])] : f \in [1..n -> AllocProfiles]} :
              n \in 0..MaxUnits}

\* the entity targets, the years and the country_production dicts of the calls
Productions == {0, 6000, 9000}

AllocYears == {NaN, 2024, 2025}

CountryProductions ==
    UNION {[S -> {3000, 6000}] : S \in SUBSET {"Japan", "India", "Brazil"}}

InitAlloc ==
    /\ units_df \in AllocFrames
    /\ inputs \in [company : {"Nippon Steel"}, production_mt : Productions,
                   year : AllocYears, country_production : CountryProductions]
    /\ tp_detail = NotBuilt
    /\ bau_detail = NotBuilt
    /\ ret = NoCall

CalculateCompanyEmissions ==
    /\ ret' = [op |-> "calculate_company_emissions",
               company_plants |->
                   get_company_plants(units_df, inputs.company, inputs.year),
               result |->
                   calculate_company_emissions(units_df, inputs.company,
                       inputs.production_mt, inputs.year,
                       inputs.country_production)]
    /\ UNCHANGED <<units_df, inputs, tp_detail, bau_detail>>

NextAlloc == CalculateCompanyEmissions

SpecAlloc == InitAlloc /\ [][NextAlloc]_vars

\* C1: whenever the call returns a result (the resolved units have total
\* capacity > 0), the allocated_production_mt of the breakdown sum to the
\* entity target production_mt, with or without country_production
C1_AllocationSumsToTarget ==
    (ret.op = "calculate_company_emissions" /\ ~ret.result.none) =>
        RatSum(MapSeq(ret.result.plant_breakdown,
                      LAMBDA r : r.allocated_production_mt))
            = Rat(inputs.production_mt, 1000)

\* C8: the call returns None, having divided by nothing, when no unit is
\* resolved or the resolved units' capacities sum to zero or less; and no
\* division of a call has a zero divisor (total, regional or unassigned
\* capacity), so no allocated value is an inf or a nan
C8_NoDataNoDivision ==
    ret.op = "calculate_company_emissions" =>
        /\ (\/ ret.company_plants = <<>>
            \/ SumSeq(MapSeq(ret.company_plants, LAMBDA p : p.capacity_ttpa)) <= 0)
               => (ret.result.none /\ ret.result.divisors = {})
        /\ \A d \in ret.result.divisors : d.n # 0 /\ d.d # 0
        /\ \A i \in 1..Len(ret.result.plant_breakdown) :
              ret.result.plant_breakdown[i].allocated_production_mt.d # 0

\* units are resolved, their capacities sum to zero or less, sub-targets given
C8_Witness ==
    /\ ret.op = "calculate_company_emissions"
    /\ ret.company_plants # <<>>
    /\ DOMAIN inputs.country_production # {}
    /\ ret.result.none

\* the EF the call uses for a row of the breakdown: EF(region, technology
\* class, year), the reference-year factor when no year is given
EfOfRow(r, year) == Rat(get_plant_ef(r.country, r.process, year), 1000)

EmissionsSum(breakdown) ==
    RatSum([i \in 1..Len(breakdown) |-> breakdown[i].emissions_mt])

\* the call of the example: units of capacity 10 and 5 Mt/yr in one country,
\* primary route and scrap route, target 9 Mt in 2024, no sub-targets
ExampleCall ==
    /\ ret.op = "calculate_company_emissions"
    /\ Len(ret.company_plants) = 2
    /\ ret.company_plants[1].capacity_ttpa = 10000
    /\ ret.company_plants[1].process = "BF-BOF"
    /\ ret.company_plants[2].capacity_ttpa = 5000
    /\ ret.company_plants[2].process = "EAF"
    /\ ret.company_plants[1].country = ret.company_plants[2].country
    /\ inputs.production_mt = 9000
    /\ inputs.year = 2024
    /\ DOMAIN inputs.country_production = {}

\* C11: in every result of calculate_company_emissions each unit's emissions
\* are its allocated output times EF(region, technology class, year), the
\* entity emissions are the sum of the unit emissions and the weighted EF is
\* that sum over the target (both reported to three decimals); for units of
\* capacity 10 and 5 with target 9 in 2024 the utilization is 0.6 and the
\* allocated outputs are 6 and 3
C11_EmissionsFromAllocation ==
    (ret.op = "calculate_company_emissions" /\ ~ret.result.none) =>
        LET b == ret.result.plant_breakdown
        IN  /\ \A i \in 1..Len(b) :
                  b[i].emissions_mt
                      = RatMul(b[i].allocated_production_mt,
                               EfOfRow(b[i], inputs.year))
            /\ ret.result.emissions_mt = RatRound(EmissionsSum(b), 1000)
            /\ inputs.production_mt > 0 =>
                  ret.result.weighted_ef
                      = RatRound(RatDiv(EmissionsSum(b),
                                        Rat(inputs.production_mt, 1000)), 1000)
            /\ ExampleCall =>
                  /\ ret.result.utilization_rate = 6000
                  /\ b[1].allocated_production_mt = Rat(6, 1)
                  /\ b[2].allocated_production_mt = Rat(3, 1)
                  /\ b[1].emissions_mt = RatMul(Rat(6, 1), EfOfRow(b[1], 2024))
                  /\ b[2].emissions_mt = RatMul(Rat(3, 1), EfOfRow(b[2], 2024))

\* the call of the example returned a result with positive emissions
C11_Witness ==
    /\ ExampleCall
    /\ ~ret.result.none
    /\ ret.result.emissions_mt > 0
    /\ ret.result.weighted_ef > 0

\* the capacity in ttpa of the rows of a breakdown that lie in a set of
\* regions, and the regions with a sub-target and positive capacity
RegionCapacity(b, regions) ==
    SumSeq([i \in 1..Len(b) |->
               IF b[i].country \in regions THEN b[i].capacity_ttpa ELSE 0])

SubTargetRegions(b) ==
    {c \in DOMAIN inputs.country_production : RegionCapacity(b, {c}) > 0}

\* the regions of the breakdown that have no sub-target
FreeRegions(b) ==
    {b[i].country : i \in 1..Len(b)} \ DOMAIN inputs.country_production

\* the entity target minus the sub-targets that were applied, in 0.001 Mt
Residual(b) ==
    inputs.production_mt - SumOver(inputs.country_production, SubTargetRegions(b))

\* C21: in a result computed with region sub-targets over units of
\* non-negative capacity, every unit of a region with a sub-target and
\* positive capacity is allocated capacity x (sub-target / regional
\* capacity), so the region's allocated total is its sub-target; every unit
\* of a region without a sub-target is allocated capacity x (residual /
\* capacity of those regions) when the residual and that capacity are
\* positive and nothing otherwise; no other unit is allocated anything
C21_RegionSubTargets ==
    (/\ ret.op = "calculate_company_emissions"
     /\ ~ret.result.none
     /\ DOMAIN inputs.country_production # {}
     /\ \A i \in 1..Len(ret.company_plants) :
           ret.company_plants[i].capacity_ttpa >= 0) =>
        LET b == ret.result.plant_breakdown
            sub == SubTargetRegions(b)
            free == FreeRegions(b)
            free_cap == RegionCapacity(b, free)
        IN  /\ \A i \in 1..Len(b) :
                  b[i].allocated_production_mt
                      = IF b[i].country \in sub
                        THEN RatMul(Rat(b[i].capacity_ttpa, 1000),
                                    Rat(inputs.country_production[b[i].country],
                                        RegionCapacity(b, {b[i].country})))
                        ELSE IF b[i].country \in free /\ Residual(b) > 0
                                /\ free_cap > 0
                        THEN RatMul(Rat(b[i].capacity_ttpa, 1000),
                                    Rat(Residual(b), free_cap))
                        ELSE Rat(0, 1)
            /\ \A c \in sub :
                  RatSum([i \in 1..Len(b) |->
                             IF b[i].country = c
                             THEN b[i].allocated_production_mt ELSE Rat(0, 1)])
                      = Rat(inputs.country_production[c], 1000)

\* a call with a sub-target for one of two regions and a positive residual
C21_Witness ==
    /\ ret.op = "calculate_company_emissions"
    /\ ~ret.result.none
    /\ Len(ret.result.plant_breakdown) = 2
    /\ ret.result.plant_breakdown[1].country = "Japan"
    /\ ret.result.plant_breakdown[2].country = "India"
    /\ DOMAIN inputs.country_production = {"Japan"}
    /\ inputs.production_mt = 9000
    /\ inputs.country_production["Japan"] = 6000
    /\ ret.result.plant_breakdown[1].allocated_production_mt = Rat(6, 1)
    /\ ret.result.plant_breakdown[2].allocated_production_mt = Rat(3, 1)

(***************************************************************************)
(* Multi-source reconciler (apa_calculator.load_production_data).           *)
(* production_mt is in units of 0.1 Mt                                      *)
(***************************************************************************)
\* the list bad of load_annual_report_production (lines 963-968)
BadExtractions ==
    {<<"JFE Holdings", 2015>>, <<"JFE Holdings", 2016>>,
     <<"JFE Holdings", 2017>>, <<"Nippon Steel", 2024>>}

Key(row) == <<row.company, row.year>>

\* load_annual_report_production keeping the known bad extractions
load_annual_report_production_unfiltered(prod) ==
    MapSeq(prod, LAMBDA r : [r EXCEPT !.production_source = "annual_report"])

\* load_annual_report_production, from the production_mt rows of the file
load_annual_report_production(prod) ==
    MapSeq(SelectSeq(prod, LAMBDA r : Key(r) \notin BadExtractions),
           LAMBDA r : [r EXCEPT !.production_source = "annual_report"])

\* frame["_priority"] = priority
WithPriority(frame, priority) ==
    [i \in 1..Len(frame) |->
        [company |-> frame[i].company, year |-> frame[i].year,
         production_mt |-> frame[i].production_mt,
         production_source |-> frame[i].production_source,
         priority |-> priority]]

\* pd.concat([bau, ar, curated, ald, gem_prod]) with the _priority column
AllProd(bau, ar, curated, ald, gem_prod) ==
    WithPriority(bau, 0) \o WithPriority(ar, 1) \o WithPriority(curated, 2)
        \o WithPriority(ald, 3) \o WithPriority(gem_prod, 4)

Perms(s) ==
    {[i \in 1..Len(s) |-> s[f[i]]] :
        f \in {g \in [1..Len(s) -> 1..Len(s)] :
                  \A i, j \in 1..Len(s) : i # j => g[i] # g[j]}}

Block(all_prod, priority) == SelectSeq(all_prod, LAMBDA r : r.priority = priority)

\* all_prod.sort_values("_priority"): the default sort is not stable, so rows
\* of equal priority come in any order
SortValues(all_prod) ==
    {b0 \o b1 \o b2 \o b3 \o b4 :
        b0 \in Perms(Block(all_prod, 0)), b1 \in Perms(Block(all_prod, 1)),
        b2 \in Perms(Block(all_prod, 2)), b3 \in Perms(Block(all_prod, 3)),
        b4 \in Perms(Block(all_prod, 4))}

\* drop_duplicates(subset=["company", "year"], keep="first")
drop_duplicates(sorted) ==
    LET keep == {i \in 1..Len(sorted) :
                    \A j \in 1..(i - 1) : Key(sorted[j]) # Key(sorted[i])}
        Idx == [i \in 1..Len(sorted) |-> i]
    IN  MapSeq(SelectSeq(Idx, LAMBDA i : i \in keep), LAMBDA i : sorted[i])

\* result.drop(columns=["_priority"])
DropPriority(frame) ==
    [i \in 1..Len(frame) |->
        [company |-> frame[i].company, year |-> frame[i].year,
         production_mt |-> frame[i].production_mt,
         production_source |-> frame[i].production_source]]

\* the frames load_production_data can return from the five source frames
load_production_data(bau, ar, curated, ald, gem_prod) ==
    LET all_prod == AllProd(bau, ar, curated, ald, gem_prod)
    IN  IF all_prod = <<>> THEN {<<>>}
        ELSE {DropPriority(drop_duplicates(sorted)) : sorted \in SortValues(all_prod)}

(***************************************************************************)
(* Reconciler specification: the frames of the five sources, drawn once,    *)
(* and a call of load_production_data                                       *)
(***************************************************************************)
MaxObs == 1

ReconKeys == {<<"Nippon Steel", 2023>>, <<"Nippon Steel", 2024>>}

\* the frames of at most MaxObs rows a source can hold
ObsFrames(source, values) ==
    UNION {[1..n -> {[company |-> k[1], year |-> k[2], production_mt |-> v,
                      production_source |-> source] :
                        k \in ReconKeys, v \in values}] : n \in 0..MaxObs}

InitRecon ==
    /\ units_df = <<>>
    /\ inputs \in [bau : ObsFrames("bau_reported", {120}),
                   extracted : ObsFrames("steel_all_extracted", {115, 520}),
                   curated : ObsFrames("curated_reports", {118}),
                   ald : ObsFrames("kampmann_ald", {110}),
                   gem_prod : ObsFrames("gem_plant_level", {100})]
    /\ tp_detail = NotBuilt
    /\ bau_detail = NotBuilt
    /\ ret = NoCall

LoadProductionData ==
    \E result \in load_production_data(
                      inputs.bau, load_annual_report_production(inputs.extracted),
                      inputs.curated, inputs.ald, inputs.gem_prod) :
        /\ ret' = [op |-> "load_production_data", rows |-> result]
        /\ UNCHANGED <<units_df, inputs, tp_detail, bau_detail>>

NextRecon == LoadProductionData

SpecRecon == InitRecon /\ [][NextRecon]_vars

\* the observations of the five sources: rank, key, value, and whether the
\* observation matches the exclusion list (entity, year and source)
Observations ==
    LET Obs(frame, rank, listed) ==
            {[rank |-> rank, key |-> Key(frame[i]),
              production_mt |-> frame[i].production_mt,
              excluded |-> listed /\ Key(frame[i]) \in BadExtractions] :
                 i \in 1..Len(frame)}
    IN  Obs(inputs.bau, 0, FALSE) \cup Obs(inputs.extracted, 1, TRUE)
            \cup Obs(inputs.curated, 2, FALSE) \cup Obs(inputs.ald, 3, FALSE)
            \cup Obs(inputs.gem_prod, 4, FALSE)

RankOfSource(source) ==
    CASE source = "bau_reported" -> 0
      [] source = "annual_report" -> 1
      [] source = "curated_reports" -> 2
      [] source = "kampmann_ald" -> 3
      [] source = "gem_plant_level" -> 4

\* C2: for every (entity, year) with a non-excluded observation, exactly one
\* row is kept, and it carries the value of a non-excluded observation of
\* the lowest rank present; a key without one has no row; so an observation
\* on the exclusion list is never the one kept
C2_LowestRankKept ==
    ret.op = "load_production_data" =>
        LET eligible == {o \in Observations : ~o.excluded}
        IN  /\ \A k \in ReconKeys :
                 LET of_key == {o \in eligible : o.key = k}
                     kept == {i \in 1..Len(ret.rows) : Key(ret.rows[i]) = k}
                 IN  IF of_key = {} THEN kept = {}
                     ELSE /\ Cardinality(kept) = 1
                          /\ \A i \in kept :
                                \E o \in of_key :
                                   /\ \A q \in of_key : o.rank <= q.rank
                                   /\ o.rank = RankOfSource(ret.rows[i].production_source)
                                   /\ o.production_mt = ret.rows[i].production_mt

\* an extraction on the exclusion list has the best rank present for its
\* key, next to a kept value of a lower-priority source
C2_Witness ==
    /\ ret.op = "load_production_data"
    /\ \E o \in Observations :
          /\ o.excluded
          /\ \A q \in Observations : q.key = o.key => o.rank <= q.rank
          /\ \E i \in 1..Len(ret.rows) : Key(ret.rows[i]) = o.key

(***************************************************************************)
(* Entity resolution with equity (ownership_mapping).  An equity share is   *)
(* in percent (40 is the fraction 0.40)                                     *)
(***************************************************************************)
\* float(match.group(1)) of the pattern \[(\d+\.?\d*)\s*%\], in percent
PctOfToken(token) ==
    CASE token = "[40.0%]" -> 40
      [] token = "[50.0%]" -> 50
      [] token = "[60.0%]" -> 60
      [] token = "[100.0%]" -> 100

\* str(parent_str).split(";")
RECURSIVE SplitParts(_)
SplitParts(tokens) ==
    IF \A i \in 1..Len(tokens) : tokens[i] # ";" THEN <<tokens>>
    ELSE LET k == CHOOSE i \in 1..Len(tokens) :
                      tokens[i] = ";" /\ \A j \in 1..(i - 1) : tokens[j] # ";"
         IN  <<SubSeq(tokens, 1, k - 1)>>
                 \o SplitParts(SubSeq(tokens, k + 1, Len(tokens)))

\* one part of the Parent field: its first annotation and the rest of it
ParsePart(part) ==
    LET annotations == SelectSeq(part, LAMBDA t : t \in PctTokens)
    IN  [entity |-> SelectSeq(part, LAMBDA t : t \notin PctTokens),
         equity_pct |-> IF annotations # <<>> THEN PctOfToken(Head(annotations))
                        ELSE NaN]

parse_parent_equity(parent_str) ==
    IF parent_str = <<>> THEN <<>>
    ELSE MapSeq(SelectSeq(SplitParts(parent_str), LAMBDA part : part # <<>>),
                ParsePart)

\* get_company_equity_share taking an owner without a percentage as the full owner
get_company_equity_share_full(parent_str, company) ==
    LET owners == SelectSeq(parse_parent_equity(parent_str),
                            LAMBDA o : ParentContains(o.entity, company))
    IN  IF owners = <<>> THEN 0
        ELSE IF Head(owners).equity_pct = NaN THEN 100
        ELSE Head(owners).equity_pct

get_company_equity_share(parent_str, company) ==
    LET owners == SelectSeq(parse_parent_equity(parent_str),
                            LAMBDA o : ParentContains(o.entity, company))
    IN  IF owners = <<>> THEN 0
        ELSE IF Head(owners).equity_pct = NaN THEN NaN
        ELSE Head(owners).equity_pct

\* _get_company_plants_with_equity; raw_parent_map gives a plant its Parent
get_company_plants_with_equity(plants_df, company, year) ==
    LET matched == SelectSeq(plants_df, LAMBDA p : ParentContains(p.parent, company))
        remaining ==
            IF matched # <<>>
                  /\ \E t \in OWNERSHIP_TRANSFERS :
                        t.acquirer = company /\ year < t.year_acquired
            THEN SelectSeq(matched, LAMBDA p : ~TargetPlantPattern(p.plant_name))
            ELSE matched
        fallback == remaining = <<>> /\ company \in COMPANY_PLANT_NAME_PATTERNS
        result ==
            IF fallback
            THEN SelectSeq(plants_df, LAMBDA p : TargetPlantPattern(p.plant_name))
            ELSE remaining
    IN  MapSeq(result,
               LAMBDA p :
                   [id |-> p.id, plant_name |-> p.plant_name, parent |-> p.parent,
                    match_source |-> IF fallback THEN "plant_name_fallback"
                                     ELSE "parent_pattern",
                    equity_share |-> get_company_equity_share(p.parent, company)])

\* the flags of one mapping row (lines 409-428)
Flags(equity, in_kampmann, is_kampmann_company, k_ownership) ==
    (IF ~in_kampmann /\ is_kampmann_company THEN {"NOT_IN_KAMPMANN"} ELSE {})
    \cup (IF in_kampmann /\ notna(equity) /\ notna(k_ownership)
             /\ Abs(equity - k_ownership) > 2
          THEN {"EQUITY_MISMATCH"} ELSE {})
    \cup (IF ~notna(equity) THEN {"EQUITY_UNKNOWN"} ELSE {})
    \cup (IF notna(equity) /\ equity < 50 THEN {"MINORITY_STAKE"} ELSE {})

\* the mapping rows generate_ownership_mapping appends for a company and a
\* year; kampmann says whether the reference plant list names the company's
\* plants and with which ownership share
generate_ownership_mapping(all_plants, company, year, kampmann) ==
    LET year_plants == get_plants_for_year(all_plants, year)
        company_plants == get_company_plants_with_equity(year_plants, company, year)
    IN  MapSeq(company_plants,
               LAMBDA plant :
                   [id |-> plant.id, plant_name |-> plant.plant_name,
                    gem_parent_raw |-> plant.parent,
                    equity_share |-> plant.equity_share,
                    match_source |-> plant.match_source,
                    flags |-> Flags(plant.equity_share, kampmann.listed,
                                    kampmann.listed, kampmann.ownership_share)])

(***************************************************************************)
(* Ownership specification: a plant frame, a company, a year and the        *)
(* reference plant list, drawn once; the two resolvers are called on them   *)
(***************************************************************************)
OwnerParents ==
    {<<"Nippon Steel Corp", "[100.0%]">>,
     <<"Nippon Steel Corp">>,
     <<"ArcelorMittal SA", "[60.0%]", ";", "Nippon Steel Corp", "[40.0%]">>,
     <<"ArcelorMittal SA", ";", "Nippon Steel Corp">>,
     <<"United States Steel Corp", "[100.0%]">>,
     <<"Nippon Steel Corp", "[50.0%]", ";", "United States Steel Corp", "[50.0%]">>}

OwnerRow(i, p) ==
    [id |-> i, plant_name |-> p.plant_name, country |-> "United States",
     process |-> "BF-BOF", capacity_ttpa |-> 5000,
     ef |-> get_plant_ef("United States", "BF-BOF", NaN),
     parent |-> p.parent, status |-> "operating", start_year |-> 2000]

OwnerFrames ==
    UNION {{[i \in 1..n |-> OwnerRow(i, f[i])] :
               f \in [1..n -> [parent : OwnerParents, plant_name : PlantNames]]} :
              n \in 0..MaxUnits}

\* the years around the transfer
OwnerYears == {YearAcquired - 1, YearAcquired}

InitOwner ==
    /\ units_df \in OwnerFrames
    /\ inputs \in [company : {"Nippon Steel", "US Steel"}, year : OwnerYears,
                   kampmann : {[listed |-> FALSE, ownership_share |-> NaN],
                               [listed |-> TRUE, ownership_share |-> 100]}]
    /\ tp_detail = NotBuilt
    /\ bau_detail = NotBuilt
    /\ ret = NoCall

GetCompanyPlants ==
    /\ ret' = [op |-> "get_company_plants",
               rows |-> get_company_plants(units_df, inputs.company, inputs.year)]
    /\ UNCHANGED <<units_df, inputs, tp_detail, bau_detail>>

GenerateOwnershipMapping ==
    /\ ret' = [op |-> "generate_ownership_mapping",
               rows |-> generate_ownership_mapping(units_df, inputs.company,
                                                   inputs.year, inputs.kampmann)]
    /\ UNCHANGED <<units_df, inputs, tp_detail, bau_detail>>

NextOwner == GetCompanyPlants \/ GenerateOwnershipMapping

SpecOwner == InitOwner /\ [][NextOwner]_vars

\* C5: for a query year before the transfer's year, the acquirer's resolved
\* set holds no unit matched by the transfer's target rule, and the target's
\* resolved set holds every such unit of the registry
C5_PreTransferResolution ==
    ret.op = "get_company_plants" =>
        \A t \in OWNERSHIP_TRANSFERS :
            inputs.year < t.year_acquired =>
                /\ inputs.company = t.acquirer =>
                      \A i \in 1..Len(ret.rows) :
                          ~TargetPlantPattern(ret.rows[i].plant_name)
                /\ inputs.company = t.target =>
                      \A i \in 1..Len(units_df) :
                          TargetPlantPattern(units_df[i].plant_name) =>
                              units_df[i].id \in Ids(ret.rows)

\* the units of the registry that get_company_plants resolves to a company
\* for the query year of the call
ResolvedTo(company) == Ids(get_company_plants(units_df, company, inputs.year))

\* C26: for the query year of a call, a unit matched by a transfer's target
\* rule is not resolved to both the acquirer and the target: before the
\* effective year it is not resolved to the acquirer, from the effective
\* year onward it is not resolved to the target
C26_TransferredUnitHasOneOwner ==
    ret.op = "get_company_plants" =>
        \A t \in OWNERSHIP_TRANSFERS :
            \A i \in 1..Len(units_df) :
                TargetPlantPattern(units_df[i].plant_name) =>
                    /\ ret.rows = get_company_plants(units_df, inputs.company,
                                                     inputs.year)
                    /\ ~(units_df[i].id \in ResolvedTo(t.acquirer)
                            /\ units_df[i].id \in ResolvedTo(t.target))
                    /\ inputs.year < t.year_acquired =>
                          units_df[i].id \notin ResolvedTo(t.acquirer)
                    /\ inputs.year >= t.year_acquired =>
                          units_df[i].id \notin ResolvedTo(t.target)

\* the percentage the Parent field declares for the first owner the
\* company's pattern matches, read off the tokens (NaN when it declares none)
DeclaredPct(parent, company) ==
    LET hits == {i \in 1..Len(parent) : OwnerPatternMatches(company, parent[i])}
    IN  IF hits = {} THEN NaN
        ELSE LET i == CHOOSE x \in hits : \A y \in hits : x <= y
                 part == {j \in 1..Len(parent) :
                             \A k \in 1..Len(parent) :
                                 ((j <= k /\ k <= i) \/ (i <= k /\ k <= j))
                                     => parent[k] # ";"}
                 anns == {j \in part : parent[j] \in PctTokens}
             IN  IF anns = {} THEN NaN
                 ELSE PctOfToken(parent[CHOOSE x \in anns : \A y \in anns : x <= y])

RatLeq(a, b) == a.n * b.d <= b.n * a.d

\* min(calibrated_ur, 1.0), without the lower bound
ClipUrAbove(ur) ==
    IF RatLeq(ur, Rat(1, 1)) THEN ur ELSE Rat(1, 1)

\* max(0.40, min(calibrated_ur, 1.0))
ClipUr(ur) ==
    LET low == Rat(40, 100)
        high == Rat(1, 1)
        capped == IF RatLeq(ur, high) THEN ur ELSE high
    IN  IF RatLeq(low, capped) THEN capped ELSE low

\* the APA row the calibration reads: the base year's, else the latest one
CompanyApa(apa_df, company, base_year) ==
    LET of_company == SelectSeq(apa_df, LAMBDA r : r.company = company)
        at_base == SelectSeq(of_company, LAMBDA r : r.year = base_year)
    IN  IF at_base # <<>> THEN <<Head(at_base)>>
        ELSE SelectSeq(of_company,
                       LAMBDA r : \A i \in 1..Len(of_company) :
                                      of_company[i].year <= r.year)

\* calibrated_ur (lines 371-386)
CalibratedUr(company_units, apa_production, actual_base_year) ==
    LET base_active ==
            SelectSeq(company_units,
                LAMBDA u :
                    /\ u.status \in {"operating", "operating pre-retirement"}
                    /\ (IF notna(u.start_year) THEN u.start_year ELSE 2000)
                           <= actual_base_year)
        base_capacity_mt ==
            Rat(SumSeq(MapSeq(base_active, LAMBDA u : u.capacity_ttpa)), 1000)
    IN  IF base_capacity_mt.n > 0 /\ notna(apa_production) /\ apa_production > 0
        THEN ClipUr(RatDiv(Rat(apa_production, 10), base_capacity_mt))
        ELSE Rat(80, 100)

\* detail.groupby(["company", "year"]).agg(...): one row per year with rows
Aggregate(detail, base_year, end_year) ==
    LET Idx == [k \in 1..(end_year - base_year + 1) |-> base_year + k - 1]
        present == SelectSeq(Idx, LAMBDA y : RowsOfYear(detail, y) # <<>>)
    IN  MapSeq(present,
               LAMBDA y :
                   LET rows == RowsOfYear(detail, y)
                   IN  [year |-> y,
                        emissions_raw |->
                            SumSeq(MapSeq(rows, LAMBDA r : r.emissions_mt)),
                        production_raw |->
                            SumSeq(MapSeq(rows, LAMBDA r : r.production_mt)),
                        n_active_units |-> Len(rows),
                        active_capacity_ttpa |->
                            SumSeq(MapSeq(rows, LAMBDA r : r.capacity_ttpa))])

\* gem_base_em read from the first year of the series, whichever it is
GemBaseEmFirstYear(annual, base_year) ==
    IF annual # <<>> /\ Head(annual).emissions_raw > 0
    THEN Head(annual).emissions_raw ELSE NaN

\* gem_base_em (lines 415-416)
GemBaseEm(annual, base_year) ==
    LET gem_base == SelectSeq(annual, LAMBDA r : r.year = base_year)
    IN  IF gem_base # <<>> /\ Head(gem_base).emissions_raw > 0
        THEN Head(gem_base).emissions_raw ELSE NaN

\* (raw * scale_factor) cut to 3 decimals instead of rounded
AnchoredColumnTruncated(raw, scale_factor) ==
    LET x == RatMul(Rat(raw, 10000), scale_factor) IN (x.n * 1000) \div x.d

\* (annual[raw] * scale_factor).round(3)
AnchoredColumn(raw, scale_factor) ==
    RatRound(RatMul(Rat(raw, 10000), scale_factor), 1000)

\* the body the two functions share
GenerateCompany(steel_units, company, apa_df, base_year, end_year, skip_closures) ==
    LET company_units == match_units_to_company(steel_units, company)
        company_apa == CompanyApa(apa_df, company, base_year)
        apa_row == Head(company_apa)
        calibrated_ur ==
            CalibratedUr(company_units, apa_row.production_mt, apa_row.year)
        detail == build_plant_level_tp(steel_units, company, base_year, end_year,
                                       calibrated_ur, skip_closures)
        annual == Aggregate(detail, base_year, end_year)
        apa_emissions == apa_row.emissions_mt
        gem_base_em == GemBaseEm(annual, base_year)
        anchored == notna(apa_emissions) /\ apa_emissions > 0 /\ notna(gem_base_em)
        scale_factor ==
            IF anchored THEN Rat(apa_emissions, gem_base_em) ELSE Rat(1, 1)
    IN  IF company_units = <<>> \/ company_apa = <<>> \/ detail = <<>>
        THEN [annual |-> <<>>, detail |-> <<>>]
        ELSE [annual |->
                 MapSeq(annual,
                     LAMBDA r :
                         [year |-> r.year,
                          emissions_raw |-> r.emissions_raw,
                          production_raw |-> r.production_raw,
                          n_active_units |-> r.n_active_units,
                          active_capacity_ttpa |-> r.active_capacity_ttpa,
                          calibrated_ur |-> calibrated_ur,
                          emissions_mt |->
                              AnchoredColumn(r.emissions_raw, scale_factor),
                          production_mt |->
                              AnchoredColumn(r.production_raw, scale_factor),
                          apa_anchored |-> anchored,
                          scale_factor |-> RatRound(scale_factor, 10000)]),
              detail |-> detail]

generate_company_tp(steel_units, company, apa_df, base_year, end_year) ==
    GenerateCompany(steel_units, company, apa_df, base_year, end_year, FALSE)

generate_company_bau(steel_units, company, apa_df, base_year, end_year) ==
    GenerateCompany(steel_units, company, apa_df, base_year, end_year, TRUE)

(***************************************************************************)
(* Projector specification: a registry and the APA frame, drawn once; the   *)
(* APA emissions are unknown, 1 Mt, or the raw base-year emissions of one   *)
(* of the two projections                                                   *)
(***************************************************************************)
AnchorProfiles ==
    {p \in LifeProfiles :
        /\ p.status \in {"operating", "operating pre-retirement", "construction",
                         "retired"}
        /\ p.capacity_ttpa > 0
        /\ p.pre_retirement_announced_year = NaN
        /\ p.status = "operating" => p.start_year = NaN
        /\ p.status = "retired" => p.retired_year = 2020}

AnchorFrames ==
    UNION {{[i \in 1..n |-> LifeRow(i, f[i])] : f \in [1..n -> AnchorProfiles]} :
              n \in 0..MaxUnits}

ApaRow(company, year, production_mt, emissions_mt) ==
    [company |-> company, year |-> year, production_mt |-> production_mt,
     emissions_mt |-> emissions_mt]

\* the raw base-year emissions of the projections of a registry
RawBases(steel_units, company, year, production_mt) ==
    {GemBaseEm(GenerateCompany(steel_units, company,
                               <<ApaRow(company, year, production_mt, NaN)>>,
                               BaseYear, EndYear, skip).annual, BaseYear) :
        skip \in BOOLEAN}

ApaFrames(steel_units, company) ==
    LET emissions == {NaN, 0, 10000} \cup RawBases(steel_units, company, BaseYear, 7)
    IN  {<<>>} \cup
        {<<ApaRow(company, BaseYear, p, e)>> : p \in {NaN, 4, 7, 20}, e \in emissions}
        \cup {<<ApaRow(company, BaseYear - 1, 7, e)>> : e \in emissions}

InitAnchor ==
    /\ units_df \in AnchorFrames
    /\ inputs \in {[company |-> "Nippon Steel", apa_df |-> a] :
                      a \in ApaFrames(units_df, "Nippon Steel")}
    /\ tp_detail = NotBuilt
    /\ bau_detail = NotBuilt
    /\ ret = NoCall

GenerateCompanyTp ==
    /\ ret' = [op |-> "generate_company_tp",
               out |-> generate_company_tp(units_df, inputs.company, inputs.apa_df,
                                           BaseYear, EndYear)]
    /\ UNCHANGED <<units_df, inputs, tp_detail, bau_detail>>

GenerateCompanyBau ==
    /\ ret' = [op |-> "generate_company_bau",
               out |-> generate_company_bau(units_df, inputs.company, inputs.apa_df,
                                            BaseYear, EndYear)]
    /\ UNCHANGED <<units_df, inputs, tp_detail, bau_detail>>

NextAnchor == GenerateCompanyTp \/ GenerateCompanyBau

SpecAnchor == InitAnchor /\ [][NextAnchor]_vars

\* a projection was generated, and the trusted base value (the APA
\* emissions) equals the raw emissions of the series at the base year
TrustedEqualsRawBase ==
    /\ ret.op \in {"generate_company_tp", "generate_company_bau"}
    /\ ret.out.annual # <<>>
    /\ inputs.apa_df # <<>>
    /\ \E k \in 1..Len(ret.out.annual) :
          /\ ret.out.annual[k].year = BaseYear
          /\ ret.out.annual[k].emissions_raw = inputs.apa_df[1].emissions_mt

\* C6 as stated: when the trusted base value equals the raw base-year
\* value, the anchored output and emissions equal the raw ones in every year
C6_AnchoredEqualsRaw ==
    TrustedEqualsRawBase =>
        \A k \in 1..Len(ret.out.annual) :
            /\ 10 * ret.out.annual[k].emissions_mt = ret.out.annual[k].emissions_raw
            /\ 10 * ret.out.annual[k].production_mt = ret.out.annual[k].production_raw

\* C6, amended: when the trusted base value equals the raw base-year value,
\* the scale factor is 1 and the anchored output and emissions of every year
\* are the raw ones rounded to three decimals
C6_AnchoredEqualsRoundedRaw ==
    TrustedEqualsRawBase =>
        \A k \in 1..Len(ret.out.annual) :
            /\ ret.out.annual[k].apa_anchored
            /\ ret.out.annual[k].scale_factor = 10000
            /\ ret.out.annual[k].emissions_mt
                  = RoundDiv(ret.out.annual[k].emissions_raw, 10)
            /\ ret.out.annual[k].production_mt
                  = RoundDiv(ret.out.annual[k].production_raw, 10)

\* the premise holds for a planned-transition series of several years, one
\* of whose raw values has a fourth decimal
C6_Witness ==
    /\ TrustedEqualsRawBase
    /\ ret.op = "generate_company_tp"
    /\ Len(ret.out.annual) > 1
    /\ \E k \in 1..Len(ret.out.annual) : ret.out.annual[k].emissions_raw % 10 # 0

\* the trusted base value of the generated projection (the emissions of the
\* APA row read) and its raw base-year value, NaN when absent
TrustedBase == Head(CompanyApa(inputs.apa_df, inputs.company, BaseYear)).emissions_mt

RawBase ==
    LET at_base == SelectSeq(ret.out.annual, LAMBDA r : r.year = BaseYear)
    IN  IF at_base = <<>> THEN NaN ELSE Head(at_base).emissions_raw

BothPositive == notna(TrustedBase) /\ TrustedBase > 0 /\ notna(RawBase) /\ RawBase > 0

Generated ==
    /\ ret.op \in {"generate_company_tp", "generate_company_bau"}
    /\ ret.out.annual # <<>>

\* C13 as stated: the series is anchored exactly when the trusted and the raw
\* base value are both present and positive, and then every year's output
\* and emissions are the raw ones times trusted / raw; otherwise the factor
\* is 1 and every year keeps its raw value
C13_ScaledByOneFactor ==
    Generated =>
        \A k \in 1..Len(ret.out.annual) :
            LET r == ret.out.annual[k]
            IN  /\ r.apa_anchored = BothPositive
                /\ IF BothPositive
                   THEN /\ Rat(r.emissions_mt, 1000)
                             = RatMul(Rat(r.emissions_raw, 10000),
                                      Rat(TrustedBase, RawBase))
                        /\ Rat(r.production_mt, 1000)
                             = RatMul(Rat(r.production_raw, 10000),
                                      Rat(TrustedBase, RawBase))
                   ELSE /\ Rat(r.emissions_mt, 1000) = Rat(r.emissions_raw, 10000)
                        /\ Rat(r.production_mt, 1000) = Rat(r.production_raw, 10000)

\* C13, amended: the series is anchored exactly when both base values are
\* present and positive; then every year's output and emissions are the raw
\* ones times trusted / raw, rounded to three decimals, and the reported
\* factor is that quotient to four decimals; otherwise the reported factor
\* is 1 and every year has its raw value rounded to three decimals
C13_ScaledByOneFactorRounded ==
    Generated =>
        \A k \in 1..Len(ret.out.annual) :
            LET r == ret.out.annual[k]
            IN  /\ r.apa_anchored = BothPositive
                /\ IF BothPositive
                   THEN /\ r.scale_factor
                             = RatRound(Rat(TrustedBase, RawBase), 10000)
                        /\ r.emissions_mt
                             = RatRound(RatMul(Rat(r.emissions_raw, 10000),
                                               Rat(TrustedBase, RawBase)), 1000)
                        /\ r.production_mt
                             = RatRound(RatMul(Rat(r.production_raw, 10000),
                                               Rat(TrustedBase, RawBase)), 1000)
                   ELSE /\ r.scale_factor = 10000
                        /\ r.emissions_mt = RoundDiv(r.emissions_raw, 10)
                        /\ r.production_mt = RoundDiv(r.production_raw, 10)

\* a series of several years anchored with a factor other than 1
C13_Witness ==
    /\ Generated
    /\ BothPositive
    /\ TrustedBase # RawBase
    /\ Len(ret.out.annual) > 1
    /\ ret.out.annual[1].apa_anchored

TrustedRow == Head(CompanyApa(inputs.apa_df, inputs.company, BaseYear))

\* the units whose capacity the calibration sums (lines 372-378), and the
\* units the projection emits at the base year
CalibrationUnits ==
    LET company_units == match_units_to_company(units_df, inputs.company)
    IN  {company_units[i].id : i \in {j \in 1..Len(company_units) :
            /\ company_units[j].status \in {"operating", "operating pre-retirement"}
            /\ (company_units[j].start_year = NaN
                   \/ company_units[j].start_year <= TrustedRow.year)}}

BaseYearUnits == Ids(RowsOfYear(ret.out.detail, BaseYear))

\* the rate is the quotient of the APA output and the calibration capacity,
\* inside the band
Unclipped ==
    LET capacity == SumSeq([i \in 1..Len(units_df) |->
                               IF units_df[i].id \in CalibrationUnits
                               THEN units_df[i].capacity_ttpa ELSE 0])
    IN  /\ notna(TrustedRow.production_mt) /\ TrustedRow.production_mt > 0
        /\ capacity > 0
        /\ ret.out.annual[1].calibrated_ur
              = Rat(TrustedRow.production_mt * 100, capacity)

\* the raw output of the projection at the base year, in 0.0001 Mt
RawBaseOutput ==
    SumSeq(MapSeq(RowsOfYear(ret.out.detail, BaseYear), LAMBDA r : r.production_mt))

\* C28: the units whose capacity calibrates the rate are the units the
\* projection emits at the base year, so whenever the rate is not clipped
\* the raw base-year output is the APA output the rate was calibrated on
\* (each unit's output being rounded to four decimals)
C28_CalibrationSetIsBaseYearSet ==
    Generated =>
        /\ CalibrationUnits = BaseYearUnits
        /\ Unclipped =>
              Abs(RawBaseOutput - 1000 * TrustedRow.production_mt) <= Len(units_df)

\* C29: the APA value and the raw value it is compared with are of one
\* year: an anchored projection has a row for the year of the APA row it
\* was anchored on (the base year, or the latest APA year when the base
\* year has none), and that row's emissions are the APA emissions, to three
\* decimals
C29_TrustedAndRawOfOneYear ==
    (Generated /\ ret.out.annual[1].apa_anchored) =>
        LET rows == RowsOfYear(ret.out.annual, TrustedRow.year)
        IN  /\ rows # <<>>
            /\ Head(rows).emissions_mt = RoundDiv(TrustedRow.emissions_mt, 10)

(***************************************************************************)
(* Capacity specification: a plant frame and a uniform utilization rate,    *)
(* drawn once; calculate_company_emissions is called on the frame and on    *)
(* the frame with one unit's capacity raised, each time with the target     *)
(* that gives the drawn rate (production_mt = rate * total capacity)        *)
(***************************************************************************)
UtilizationRates == {Rat(2, 5), Rat(3, 5), Rat(1, 1)}

CapacityRaises == {5000, 10000}

RaiseCapacity(plants_df, unit, raise) ==
    [i \in 1..Len(plants_df) |->
        IF plants_df[i].id = unit
        THEN [plants_df[i] EXCEPT !.capacity_ttpa = @ + raise]
        ELSE plants_df[i]]

\* the target at which the frame runs at the rate ur
TargetAt(plants_df, company, year, ur) ==
    LET total == SumSeq(MapSeq(get_company_plants(plants_df, company, year),
                               LAMBDA p : p.capacity_ttpa))
    IN  (total * ur.n) \div ur.d

InitCapacity ==
    /\ units_df \in AllocFrames
    /\ inputs \in [company : {"Nippon Steel"}, year : {2024}, ur : UtilizationRates,
                   unit : 1..MaxUnits, raise : CapacityRaises]
    /\ tp_detail = NotBuilt
    /\ bau_detail = NotBuilt
    /\ ret = NoCall

CalculateAtCapacity ==
    /\ ret.op # "calculate_company_emissions"
    /\ ret' = [op |-> "calculate_company_emissions",
               result |->
                   calculate_company_emissions(units_df, inputs.company,
                       TargetAt(units_df, inputs.company, inputs.year, inputs.ur),
                       inputs.year, <<>>)]
    /\ UNCHANGED <<units_df, inputs, tp_detail, bau_detail>>

CalculateAtRaisedCapacity ==
    /\ ret.op = "calculate_company_emissions"
    /\ LET raised == RaiseCapacity(units_df, inputs.unit, inputs.raise)
       IN  ret' = [op |-> "raised_capacity",
                   before |-> ret.result,
                   result |->
                       calculate_company_emissions(raised, inputs.company,
                           TargetAt(raised, inputs.company, inputs.year, inputs.ur),
                           inputs.year, <<>>)]
    /\ UNCHANGED <<units_df, inputs, tp_detail, bau_detail>>

NextCapacity == CalculateAtCapacity \/ CalculateAtRaisedCapacity

SpecCapacity == InitCapacity /\ [][NextCapacity]_vars

\* C12: at one positive utilization rate, a unit whose capacity was raised
\* is allocated strictly more than before (capacity times the rate) and
\* every other unit is allocated what it was allocated before
C12_CapacityMonotonic ==
    (ret.op = "raised_capacity" /\ ~ret.before.none /\ ~ret.result.none) =>
        LET b == ret.before.plant_breakdown
            a == ret.result.plant_breakdown
        IN  /\ Len(a) = Len(b)
            /\ \A i \in 1..Len(b) :
                  /\ a[i].id = b[i].id
                  /\ a[i].allocated_production_mt
                        = RatMul(Rat(a[i].capacity_ttpa, 1000), inputs.ur)
                  /\ IF b[i].id = inputs.unit
                     THEN ~RatLeq(a[i].allocated_production_mt,
                                  b[i].allocated_production_mt)
                     ELSE a[i].allocated_production_mt
                              = b[i].allocated_production_mt

\* a frame of two units, the raised one going from 10 to above 10 Mt/yr
C12_Witness ==
    /\ ret.op = "raised_capacity"
    /\ ~ret.before.none /\ ~ret.result.none
    /\ Len(ret.before.plant_breakdown) = 2
    /\ \E i \in 1..2 :
          /\ ret.before.plant_breakdown[i].id = inputs.unit
          /\ ret.before.plant_breakdown[i].capacity_ttpa = 10000

(***************************************************************************)
(* generate_all_tp and generate_all_bau (gem_closure_tp.py): the loop over  *)
(* ALL_COMPANIES, with the flat fallback for a company whose projection     *)
(* came back empty.  Annual values are in units of 0.001 Mt; the NaN of the *)
(* column calibrated_ur is DivError                                         *)
(***************************************************************************)
ALL_COMPANIES == <<"Nippon Steel", "ArcelorMittal">>

\* the last row of the company's APA rows as the frame has them, unsorted
LatestApaUnsorted(apa_df, company) ==
    LET company_apa == SelectSeq(apa_df, LAMBDA r : r.company = company)
    IN  company_apa[Len(company_apa)]

\* apa_df[apa_df["company"] == company].sort_values("year").iloc[-1]
LatestApa(apa_df, company) ==
    LET company_apa == SelectSeq(apa_df, LAMBDA r : r.company = company)
    IN  CHOOSE r \in {company_apa[i] : i \in 1..Len(company_apa)} :
            \A i \in 1..Len(company_apa) : company_apa[i].year <= r.year

\* the rows the loop appends for one company (lines 464-497, 667-700)
CompanyAnnual(steel_units, company, apa_df, base_year, end_year, skip_closures) ==
    LET annual == GenerateCompany(steel_units, company, apa_df, base_year,
                                  end_year, skip_closures).annual
        latest == LatestApa(apa_df, company)
    IN  IF annual # <<>>
        THEN MapSeq(annual,
                 LAMBDA r :
                     [company |-> company, year |-> r.year,
                      emissions_mt |-> r.emissions_mt,
                      production_mt |-> r.production_mt,
                      n_active_units |-> r.n_active_units,
                      active_capacity_ttpa |-> r.active_capacity_ttpa,
                      calibrated_ur |-> r.calibrated_ur,
                      source |-> IF skip_closures THEN "gem_plant_level_bau"
                                 ELSE "gem_plant_level"])
        ELSE IF SelectSeq(apa_df, LAMBDA r : r.company = company) = <<>>
        THEN <<>>
        ELSE [k \in 1..(end_year - base_year + 1) |->
                 [company |-> company, year |-> base_year + k - 1,
                  emissions_mt |->
                      IF notna(latest.emissions_mt)
                      THEN RoundDiv(latest.emissions_mt, 10) ELSE NaN,
                  production_mt |->
                      IF notna(latest.production_mt)
                      THEN latest.production_mt * 100 ELSE NaN,
                  n_active_units |-> 0,
                  active_capacity_ttpa |-> 0,
                  calibrated_ur |-> DivError,
                  source |-> "apa_constant_fallback"]]

RECURSIVE GenerateAll(_, _, _, _, _, _)
GenerateAll(companies, steel_units, apa_df, base_year, end_year, skip_closures) ==
    IF companies = <<>> THEN <<>>
    ELSE CompanyAnnual(steel_units, Head(companies), apa_df, base_year, end_year,
                       skip_closures)
         \o GenerateAll(Tail(companies), steel_units, apa_df, base_year, end_year,
                        skip_closures)

generate_all_tp(steel_units, apa_df, base_year, end_year) ==
    GenerateAll(ALL_COMPANIES, steel_units, apa_df, base_year, end_year, FALSE)

generate_all_bau(steel_units, apa_df, base_year, end_year) ==
    GenerateAll(ALL_COMPANIES, steel_units, apa_df, base_year, end_year, TRUE)

(***************************************************************************)
(* Fallback specification: a registry whose units belong to one of two      *)
(* owners, only the first of them a company of ALL_COMPANIES' patterns or   *)
(* both, and an APA frame of up to two rows per company, in any order       *)
(***************************************************************************)
FallbackFrames ==
    LET profiles ==
            {p \in LifeProfiles :
                /\ p.status \in {"operating", "announced"}
                /\ p.start_year = NaN
                /\ p.capacity_ttpa > 0}
        owners == {"Nippon Steel Corp", "Tosyali Holding AS"}
    IN  UNION {{[i \in 1..n |->
                    [LifeRow(i, f[i][1]) EXCEPT !.parent = SoleOwner(f[i][2])]] :
                  f \in [1..n -> profiles \X owners]} : n \in 0..MaxUnits}

FallbackApaFrames ==
    LET Rows(c) ==
            {<<>>,
             <<ApaRow(c, 2023, 7, 10000)>>,
             <<ApaRow(c, BaseYear, NaN, 20000)>>,
             <<ApaRow(c, 2023, 20, 30000), ApaRow(c, 2022, 7, 10000)>>}
    IN  {a \o b : a \in Rows(ALL_COMPANIES[1]), b \in Rows(ALL_COMPANIES[2])}

InitFallback ==
    /\ units_df \in FallbackFrames
    /\ inputs \in {[apa_df |-> a] : a \in FallbackApaFrames}
    /\ tp_detail = NotBuilt
    /\ bau_detail = NotBuilt
    /\ ret = NoCall

GenerateAllTp ==
    /\ ret' = [op |-> "generate_all_tp",
               annual |-> generate_all_tp(units_df, inputs.apa_df, BaseYear, EndYear)]
    /\ UNCHANGED <<units_df, inputs, tp_detail, bau_detail>>

GenerateAllBau ==
    /\ ret' = [op |-> "generate_all_bau",
               annual |-> generate_all_bau(units_df, inputs.apa_df, BaseYear, EndYear)]
    /\ UNCHANGED <<units_df, inputs, tp_detail, bau_detail>>

SpecFallback == InitFallback /\ [][GenerateAllTp \/ GenerateAllBau]_vars

\* the companies of a call that have no matched unit and some APA row
NoUnitsButApa(c) ==
    /\ match_units_to_company(units_df, c) = <<>>
    /\ \E i \in 1..Len(inputs.apa_df) : inputs.apa_df[i].company = c

\* C14: in the result of generate_all_tp and generate_all_bau a company with
\* no matched unit and at least one APA row has exactly one row per year
\* from base_year to end_year; every one of them has the output and the
\* emissions of the company's latest APA row and source =
\* apa_constant_fallback
C14_FlatFallback ==
    ret.op \in {"generate_all_tp", "generate_all_bau"} =>
        \A n \in 1..Len(ALL_COMPANIES) :
            LET c == ALL_COMPANIES[n]
                rows == SelectSeq(ret.annual, LAMBDA r : r.company = c)
            IN  NoUnitsButApa(c) =>
                  /\ Len(rows) = EndYear - BaseYear + 1
                  /\ \A k \in 1..Len(rows) :
                        /\ rows[k].year = BaseYear + k - 1
                        /\ rows[k].source = "apa_constant_fallback"
                        /\ \E i \in 1..Len(inputs.apa_df) :
                              LET a == inputs.apa_df[i]
                              IN  /\ a.company = c
                                  /\ \A j \in 1..Len(inputs.apa_df) :
                                        inputs.apa_df[j].company = c
                                            => inputs.apa_df[j].year <= a.year
                                  /\ 10 * rows[k].emissions_mt = a.emissions_mt
                                  /\ IF notna(a.production_mt)
                                     THEN rows[k].production_mt
                                              = 100 * a.production_mt
                                     ELSE rows[k].production_mt = NaN

\* C16: one announced-unit rule per computation: in a projection of
\* generate_all_tp or generate_all_bau over operating and announced units
\* whose calibrated rate lies strictly inside the band, the capacity the
\* base-year calibration divided by (APA output / rate) is the active
\* capacity of the projection's base year
C16_OneAnnouncedRule ==
    ret.op \in {"generate_all_tp", "generate_all_bau"} =>
        \A k \in 1..Len(ret.annual) :
            LET r == ret.annual[k]
                apa == Head(CompanyApa(inputs.apa_df, r.company, BaseYear))
            IN  (/\ r.source \in {"gem_plant_level", "gem_plant_level_bau"}
                 /\ r.year = BaseYear
                 /\ notna(apa.production_mt)
                 /\ ~RatLeq(r.calibrated_ur, Rat(40, 100))
                 /\ ~RatLeq(Rat(1, 1), r.calibrated_ur))
                    => Rat(apa.production_mt, 10)
                         = RatMul(r.calibrated_ur, Rat(r.active_capacity_ttpa, 1000))

\* a company without units whose two APA rows are not in year order
C14_Witness ==
    /\ ret.op = "generate_all_tp"
    /\ NoUnitsButApa(ALL_COMPANIES[2])
    /\ \E i \in 1..Len(inputs.apa_df) :
          /\ i < Len(inputs.apa_df)
          /\ inputs.apa_df[i].company = ALL_COMPANIES[2]
          /\ inputs.apa_df[i + 1].company = ALL_COMPANIES[2]
          /\ inputs.apa_df[i].year > inputs.apa_df[i + 1].year

(***************************************************************************)
(* Gap filling (apa_calculator.estimate_production_from_capacity).  A row   *)
(* of production is (company, year, production_mt, production_source),      *)
(* production_mt in units of 0.001 Mt                                       *)
(***************************************************************************)
\* comp_plants["capacity_ttpa"].sum() of the company's plants of a year
CompanyCapacity(all_plants, company, yr) ==
    SumSeq(MapSeq(get_company_plants(get_plants_for_year(all_plants, yr),
                                     company, yr),
                  LAMBDA p : p.capacity_ttpa))

\* the sanity bounds with nothing outside them
InBandAlways(ur) == TRUE

\* 0.1 <= ur <= 1.5
InBand(ur) == RatLeq(Rat(1, 10), ur) /\ RatLeq(ur, Rat(3, 2))

\* ur_samples, in the order of the rows of comp_prod (lines 1513-1522)
UrSamples(all_plants, comp_prod, company) ==
    MapSeq(SelectSeq(comp_prod,
               LAMBDA pr :
                   /\ CompanyCapacity(all_plants, company, pr.year) > 0
                   /\ notna(pr.production_mt)
                   /\ InBand(Rat(pr.production_mt,
                                 CompanyCapacity(all_plants, company, pr.year)))),
           LAMBDA pr :
               [year |-> pr.year,
                ur |-> Rat(pr.production_mt,
                           CompanyCapacity(all_plants, company, pr.year))])

\* ur_samples.sort(key=lambda x: x[0]): a stable sort on the year
RECURSIVE SortByYear(_)
SortByYear(samples) ==
    IF samples = <<>> THEN <<>>
    ELSE LET k == CHOOSE i \in 1..Len(samples) :
                      /\ \A j \in 1..Len(samples) : samples[i].year <= samples[j].year
                      /\ \A j \in 1..(i - 1) : samples[j].year # samples[i].year
         IN  <<samples[k]>>
             \o SortByYear(SubSeq(samples, 1, k - 1)
                           \o SubSeq(samples, k + 1, Len(samples)))

\* avg_ur: the mean over ur_samples[:3] of the sorted samples
AvgUr(ur_samples) ==
    LET sorted == SortByYear(ur_samples)
        earliest == SubSeq(sorted, 1, IF Len(sorted) < 3 THEN Len(sorted) ELSE 3)
    IN  RatDiv(RatSum(MapSeq(earliest, LAMBDA x : x.ur)), Rat(Len(earliest), 1))

\* production["company"].unique(): first appearances, in order
RECURSIVE UniqueCompanies(_)
UniqueCompanies(production) ==
    IF production = <<>> THEN <<>>
    ELSE LET before == UniqueCompanies(SubSeq(production, 1, Len(production) - 1))
             c == production[Len(production)].company
         IN  IF \E i \in 1..Len(before) : before[i] = c THEN before
             ELSE Append(before, c)

\* the rows estimated for one company (the body of the loop, lines 1509-1550)
EstimateCompany(all_plants, production, company, fill_years) ==
    LET comp_prod == SelectSeq(production, LAMBDA r : r.company = company)
        ur_samples == UrSamples(all_plants, comp_prod, company)
        avg_ur == AvgUr(ur_samples)
        to_fill ==
            SelectSeq(fill_years,
                LAMBDA yr :
                    /\ ~\E i \in 1..Len(production) :
                           production[i].company = company /\ production[i].year = yr
                    /\ CompanyCapacity(all_plants, company, yr) > 0)
    IN  IF ur_samples = <<>> THEN <<>>
        ELSE MapSeq(to_fill,
                 LAMBDA yr :
                     [company |-> company, year |-> yr,
                      production_mt |->
                          RatRound(RatMul(Rat(CompanyCapacity(all_plants, company, yr),
                                              1000),
                                          avg_ur), 1000),
                      production_source |-> "capacity_estimate"])

RECURSIVE EstimateCompanies(_, _, _, _)
EstimateCompanies(companies, all_plants, production, fill_years) ==
    IF companies = <<>> THEN <<>>
    ELSE EstimateCompany(all_plants, production, Head(companies), fill_years)
         \o EstimateCompanies(Tail(companies), all_plants, production, fill_years)

estimate_production_from_capacity(all_plants, production, fill_years) ==
    IF all_plants = <<>> \/ production = <<>> THEN <<>>
    ELSE EstimateCompanies(UniqueCompanies(production), all_plants, production,
                           fill_years)

(***************************************************************************)
(* The full pipeline (apa_calculator.run_apa_all) on a plant frame, a       *)
(* production frame and a map from (company, year) to country_production    *)
(***************************************************************************)
\* the row run_apa_all appends for a row of production: none when the
\* calculation returns None or its utilization rate is above 1.5
ApaResultRows(all_plants, row, country_prod_map) ==
    LET key == <<row.company, row.year>>
        country_prod ==
            IF key \in DOMAIN country_prod_map THEN country_prod_map[key] ELSE <<>>
        result == calculate_company_emissions(
                      get_plants_for_year(all_plants, row.year), row.company,
                      row.production_mt, row.year, country_prod)
    IN  IF result.none THEN <<>>
        ELSE IF result.utilization_rate > 15000 THEN <<>>
        ELSE <<[company |-> row.company, year |-> row.year,
                production_mt |-> row.production_mt,
                emissions_mt |-> result.emissions_mt,
                weighted_ef |-> result.weighted_ef,
                utilization_rate |-> result.utilization_rate,
                n_plants |-> result.n_plants,
                total_capacity_mt |-> result.total_capacity_mt,
                production_source |-> row.production_source]>>

RECURSIVE ApaResults(_, _, _)
ApaResults(all_plants, production, country_prod_map) ==
    IF production = <<>> THEN <<>>
    ELSE ApaResultRows(all_plants, Head(production), country_prod_map)
         \o ApaResults(all_plants, Tail(production), country_prod_map)

\* df.sort_values(["company", "year"]): company names in alphabetical order
SortCompanyYear(results) ==
    LET names == <<"ArcelorMittal", "Nippon Steel", "US Steel">>
        Of(n) == SortByYear(SelectSeq(results, LAMBDA r : r.company = names[n]))
    IN  Of(1) \o Of(2) \o Of(3)

run_apa_all(all_plants, production, country_prod_map) ==
    IF all_plants = <<>> \/ production = <<>> THEN <<>>
    ELSE LET fill_years == [k \in 1..6 |-> 2013 + k]
             estimated ==
                 estimate_production_from_capacity(all_plants, production, fill_years)
         IN  SortCompanyYear(ApaResults(all_plants, production \o estimated,
                                        country_prod_map))

(***************************************************************************)
(* Pipeline specification: operating plants of one company that started in  *)
(* 2000 or in 2016, and a production frame with at most one observation for *)
(* each of four years, its rows not in year order                           *)
(***************************************************************************)
ApaPlantFrames ==
    LET profiles == {p \in AllocProfiles :
                        p.country = "Japan" /\ p.capacity_ttpa > 0 /\ p.owner = "Nippon Steel Corp"}
                    \X {2000, 2016}
    IN  UNION {{[i \in 1..n |->
                    [AllocRow(i, f[i][1]) EXCEPT !.start_year = f[i][2]]] :
                  f \in [1..n -> profiles]} : n \in 0..MaxUnits}

ObservedFrames ==
    LET Obs(y, values) ==
            {<<>>} \cup
            {<<[company |-> "Nippon Steel", year |-> y, production_mt |-> v,
                production_source |-> "annual_report"]>> : v \in values}
    IN  {a \o b \o c \o d :
            a \in Obs(2021, {3000}), b \in Obs(2015, {3000, 9000}),
            c \in Obs(2020, {6000, 9000}), d \in Obs(2018, {600, 3000})}

InitApa ==
    /\ units_df \in ApaPlantFrames
    /\ inputs \in [production : ObservedFrames,
                   country_prod_map :
                       {<<>>, [k \in {<<"Nippon Steel", 2020>>} |->
                                  [c \in {"Japan"} |-> 6000]]}]
    /\ tp_detail = NotBuilt
    /\ bau_detail = NotBuilt
    /\ ret = NoCall

EstimateProductionFromCapacity ==
    /\ ret' = [op |-> "estimate_production_from_capacity",
               rows |-> estimate_production_from_capacity(
                            units_df, inputs.production,
                            [k \in 1..6 |-> 2013 + k])]
    /\ UNCHANGED <<units_df, inputs, tp_detail, bau_detail>>

RunApaAll ==
    /\ ret' = [op |-> "run_apa_all",
               rows |-> run_apa_all(units_df, inputs.production,
                                    inputs.country_prod_map)]
    /\ UNCHANGED <<units_df, inputs, tp_detail, bau_detail>>

SpecApa == InitApa /\ [][EstimateProductionFromCapacity \/ RunApaAll]_vars

\* the active capacity (ttpa) of the company in a year: its plants with an
\* active status that started by that year
ActiveCapacity(company, y) ==
    SumSeq(MapSeq(SelectSeq(units_df,
                      LAMBDA p : /\ ParentContains(p.parent, company)
                                 /\ PlantActiveInYear(p, y)),
                  LAMBDA p : p.capacity_ttpa))

\* the observations of the company that give a utilization sample inside
\* the band, and the up to three of them with the earliest years
BandSamples(company) ==
    SelectSeq(inputs.production,
        LAMBDA r : /\ r.company = company
                   /\ ActiveCapacity(company, r.year) > 0
                   /\ 10 * r.production_mt >= ActiveCapacity(company, r.year)
                   /\ 2 * r.production_mt <= 3 * ActiveCapacity(company, r.year))

EarliestSamples(company) ==
    SelectSeq(BandSamples(company),
        LAMBDA r : Cardinality({i \in 1..Len(BandSamples(company)) :
                                   BandSamples(company)[i].year < r.year}) < 3)

MeanUtilization(company) ==
    RatDiv(RatSum(MapSeq(EarliestSamples(company),
                         LAMBDA r : Rat(r.production_mt,
                                        ActiveCapacity(company, r.year)))),
           Rat(Len(EarliestSamples(company)), 1))

Observed(company, y) ==
    \E i \in 1..Len(inputs.production) :
        inputs.production[i].company = company /\ inputs.production[i].year = y

\* C20: estimate_production_from_capacity returns, for a company with some
\* sample inside the band [0.1, 1.5], exactly one row for every year of the
\* fill window that has no observation and has active capacity > 0; its
\* value is active_capacity(year) * u to three decimals, u being the mean
\* of the samples of the 3 earliest years left after the samples outside
\* the band are discarded; no row is for a year that has an observation
C20_EstimateFromEarliestSamples ==
    ret.op = "estimate_production_from_capacity" =>
        LET c == "Nippon Steel"
        IN  /\ \A k \in 1..Len(ret.rows) :
                  /\ ret.rows[k].company = c
                  /\ ret.rows[k].year \in 2014..2019
                  /\ ~Observed(c, ret.rows[k].year)
                  /\ \A j \in 1..Len(ret.rows) :
                        ret.rows[j].year = ret.rows[k].year => j = k
            /\ BandSamples(c) # <<>> =>
                  \A y \in 2014..2019 :
                      (~Observed(c, y) /\ ActiveCapacity(c, y) > 0) =>
                          \E k \in 1..Len(ret.rows) :
                              /\ ret.rows[k].year = y
                              /\ ret.rows[k].production_mt
                                    = RatRound(RatMul(Rat(ActiveCapacity(c, y), 1000),
                                                      MeanUtilization(c)), 1000)

\* four samples inside the band with different rates, so that the mean is
\* over the three earliest only, and some year is estimated
C20_Witness ==
    /\ ret.op = "estimate_production_from_capacity"
    /\ Len(BandSamples("Nippon Steel")) = 4
    /\ Len(EarliestSamples("Nippon Steel")) = 3
    /\ \E i \in 1..4 :
          BandSamples("Nippon Steel")[i].year = 2021
          /\ Rat(BandSamples("Nippon Steel")[i].production_mt,
                 ActiveCapacity("Nippon Steel", 2021)) # MeanUtilization("Nippon Steel")
    /\ ret.rows # <<>>

\* the rows run_apa_all calculates on: the observed ones, then the estimated
AllProduction ==
    inputs.production
    \o estimate_production_from_capacity(units_df, inputs.production,
                                         [k \in 1..6 |-> 2013 + k])

\* C15: in the frame run_apa_all returns, every company-year whose
\* production was estimated from capacity is tagged capacity_estimate, no
\* observed one is, and every company-year that was calculated but skipped
\* for a utilization rate above 1.5 is still there, under a tag of its own
C15_EstimatedAndSkippedTagged ==
    ret.op = "run_apa_all" =>
        \A i \in 1..Len(AllProduction) :
            LET row == AllProduction[i]
                key == <<row.company, row.year>>
                result ==
                    calculate_company_emissions(
                        get_plants_for_year(units_df, row.year), row.company,
                        row.production_mt, row.year,
                        IF key \in DOMAIN inputs.country_prod_map
                        THEN inputs.country_prod_map[key] ELSE <<>>)
                reported ==
                    SelectSeq(ret.rows,
                        LAMBDA r : r.company = row.company /\ r.year = row.year)
            IN  ~result.none =>
                  /\ Len(reported) = 1
                  /\ (reported[1].production_source = "capacity_estimate")
                        <=> (i > Len(inputs.production))
                  /\ result.utilization_rate > 15000 =>
                        reported[1].production_source
                            \notin {"capacity_estimate", "annual_report"}

(***************************************************************************)
(* The audit (kampmann_audit.run_audit), for one company of                 *)
(* KAMPMANN_TP_COMPANIES: the reference rows are (company, year,            *)
(* kampmann_tp_emissions_mt), emissions in units of 0.001 Mt; delta_pct is  *)
(* a fraction in percent, its NaN is DivError                               *)
(***************************************************************************)
\* classify_divergence with the 15 percent bound counted as minor
classify_divergence_inclusive(delta_pct) ==
    LET pct == IF delta_pct.n < 0 THEN Rat(-delta_pct.n, delta_pct.d) ELSE delta_pct
    IN  IF delta_pct = DivError THEN "major_divergence"
        ELSE IF ~RatLeq(Rat(5, 1), pct) THEN "aligned"
        ELSE IF RatLeq(pct, Rat(15, 1)) THEN "minor_divergence"
        ELSE IF ~RatLeq(Rat(30, 1), pct) THEN "moderate_divergence"
        ELSE "major_divergence"

\* classify_divergence (lines 667-676): abs(NaN) is below no bound
classify_divergence(delta_pct) ==
    LET pct == IF delta_pct.n < 0 THEN Rat(-delta_pct.n, delta_pct.d) ELSE delta_pct
    IN  IF delta_pct = DivError THEN "major_divergence"
        ELSE IF ~RatLeq(Rat(5, 1), pct) THEN "aligned"
        ELSE IF ~RatLeq(Rat(15, 1), pct) THEN "minor_divergence"
        ELSE IF ~RatLeq(Rat(30, 1), pct) THEN "moderate_divergence"
        ELSE "major_divergence"

\* one row of comparison: the left merge on (company, year), delta_mt,
\* delta_pct and divergence_class (lines 645-678)
ComparisonRow(tp_row, gem_trajectory) ==
    LET gem_rows == SelectSeq(gem_trajectory, LAMBDA g : g.year = tp_row.year)
        gem == IF gem_rows = <<>> THEN NaN ELSE Head(gem_rows).gem_tp_emissions_mt
        reference == tp_row.kampmann_tp_emissions_mt
        delta_pct ==
            IF notna(gem) /\ Abs(reference) > 1
            THEN Rat((gem - reference) * 100, reference)
            ELSE DivError
    IN  [company |-> tp_row.company, year |-> tp_row.year,
         kampmann_tp_emissions_mt |-> reference,
         gem_tp_emissions_mt |-> gem,
         delta_pct |-> delta_pct,
         divergence_class |-> classify_divergence(delta_pct)]

run_audit(units, kampmann_tp, company, base_year, end_year) ==
    LET company_tp == SelectSeq(kampmann_tp, LAMBDA r : r.company = company)
        gem_trajectory ==
            build_gem_closure_trajectory(units, company, base_year, end_year,
                                         DefaultUrPct)
    IN  IF company_tp = <<>> \/ gem_trajectory = <<>> THEN <<>>
        ELSE MapSeq(company_tp, LAMBDA r : ComparisonRow(r, gem_trajectory))

(***************************************************************************)
(* Audit specification: a registry and the reference trajectory of one      *)
(* company, with a row for up to three years, the last of them after the    *)
(* end year of the produced trajectory                                      *)
(***************************************************************************)
InitAudit ==
    /\ units_df \in AnchorFrames
    /\ inputs \in
          LET Ref(y, values) ==
                  {<<>>} \cup
                  {<<[company |-> "Nippon Steel", year |-> y,
                      kampmann_tp_emissions_mt |-> v]>> : v \in values}
          IN  {[company |-> "Nippon Steel", kampmann_tp |-> a \o b \o c] :
                  a \in Ref(2020, {0, 1000, 1312, 1500, 1600, 1640}),
                  b \in Ref(2021, {1632, 1920}),
                  c \in Ref(2021 + Horizon, {1000})}
    /\ tp_detail = NotBuilt
    /\ bau_detail = NotBuilt
    /\ ret = NoCall

RunAudit ==
    /\ ret.op = "none"
    /\ ret' = [op |-> "run_audit",
               rows |-> run_audit(units_df, inputs.kampmann_tp, inputs.company,
                                  2020, 2020 + Horizon)]
    /\ UNCHANGED <<units_df, inputs, tp_detail, bau_detail>>

SpecAudit == InitAudit /\ [][RunAudit]_vars

\* C17: every merged row of run_audit has exactly one of the four classes;
\* where delta_pct = (produced - reference) / reference is defined, the
\* row has that value and its class follows |delta_pct|: below 5 percent
\* aligned, from 5 to below 15 minor, from 15 to below 30 moderate, 30 or
\* more major
C17_ClassifiedByDelta ==
    ret.op = "run_audit" =>
        \A k \in 1..Len(ret.rows) :
            LET r == ret.rows[k]
                reference == r.kampmann_tp_emissions_mt
                d == 100 * Abs(r.gem_tp_emissions_mt - reference)
                a == Abs(reference)
            IN  /\ r.divergence_class \in
                      {"aligned", "minor_divergence", "moderate_divergence",
                       "major_divergence"}
                /\ (notna(r.gem_tp_emissions_mt) /\ a > 1) =>
                      /\ r.delta_pct
                            = Rat(100 * (r.gem_tp_emissions_mt - reference), reference)
                      /\ r.divergence_class =
                            (IF d < 5 * a THEN "aligned"
                             ELSE IF d < 15 * a THEN "minor_divergence"
                             ELSE IF d < 30 * a THEN "moderate_divergence"
                             ELSE "major_divergence")

\* C30: a merged row of run_audit whose delta_pct is undefined (no produced
\* value for its year, or a reference of magnitude at most 0.001) carries
\* none of the four classes aligned, minor, moderate and major divergence
C30_UndefinedDeltaUnclassified ==
    ret.op = "run_audit" =>
        \A k \in 1..Len(ret.rows) :
            ret.rows[k].delta_pct = DivError =>
                ret.rows[k].divergence_class
                    \notin {"aligned", "minor_divergence", "moderate_divergence",
                             "major_divergence"}

\* a row whose produced value is 15 percent below the reference, exactly
C17_Witness ==
    /\ ret.op = "run_audit"
    /\ \E k \in 1..Len(ret.rows) :
          /\ ret.rows[k].delta_pct = Rat(-15, 1)
          /\ ret.rows[k].divergence_class = "moderate_divergence"

(***************************************************************************)
(* Closure specification: a registry of closed and closing units, with and  *)
(* without a retirement date and an announcement date, and the two          *)
(* functions that infer a unit's closure year                               *)
(***************************************************************************)
InitClosure ==
    /\ units_df \in
          LET profiles ==
                  [status : {"retired", "mothballed", "operating pre-retirement"},
                   start_year : {2000},
                   pre_retirement_announced_year : {NaN, 2021},
                   retired_year : {NaN, 2026}, capacity_ttpa : {1000}]
          IN  UNION {{[i \in 1..n |-> LifeRow(i, f[i])] : f \in [1..n -> profiles]} :
                        n \in 0..MaxUnits}
    /\ inputs = [company |-> "Nippon Steel"]
    /\ tp_detail = NotBuilt
    /\ bau_detail = NotBuilt
    /\ ret = NoCall

\* build_closure_inventory(units), the rows of the company
BuildClosureInventory ==
    /\ ret' = [op |-> "build_closure_inventory",
               rows |-> build_closure_inventory(units_df, inputs.company)]
    /\ UNCHANGED <<units_df, inputs, tp_detail, bau_detail>>

\* _infer_close_year on every unit of the company, as build_plant_level_tp
\* calls it (line 285)
InferCloseYear ==
    /\ ret' = [op |-> "infer_close_year",
               rows |-> MapSeq(match_units_to_company(units_df, inputs.company),
                               LAMBDA u : [id |-> u.id,
                                           inferred_close_year |-> infer_close_year(u)])]
    /\ UNCHANGED <<units_df, inputs, tp_detail, bau_detail>>

SpecClosure == InitClosure /\ [][BuildClosureInventory \/ InferCloseYear]_vars

\* C18: a retired or mothballed unit without a retirement date closes, for
\* _infer_close_year and for build_closure_inventory alike, in its
\* announcement year plus 5 when it has one and in one fallback year, the
\* same for both functions, when it has none
C18_OneClosureRule ==
    ret.op \in {"build_closure_inventory", "infer_close_year"} =>
        \A k \in 1..Len(ret.rows) :
            \A i \in 1..Len(units_df) :
                LET u == units_df[i]
                IN  (/\ u.id = ret.rows[k].id
                     /\ u.status \in {"retired", "mothballed"}
                     /\ u.retired_year = NaN)
                        => /\ ret.rows[k].inferred_close_year = infer_close_year(u)
                           /\ ret.rows[k].inferred_close_year = inventory_close_year(u)
                           /\ notna(u.pre_retirement_announced_year) =>
                                 ret.rows[k].inferred_close_year
                                     = u.pre_retirement_announced_year + PreRetirementLag

(***************************************************************************)
(* Process assignment (gem_closure_tp.filter_steel_making_units)            *)
(***************************************************************************)
\* REDUCTANT_MAP.get(reductant, "DRI-gas") (lines 116-123, 132)
REDUCTANT_MAP(reductant) ==
    CASE reductant = "hydrogen" -> "DRI-H2"
      [] reductant = "coal" -> "DRI-coal"
      [] OTHER -> "DRI-gas"

\* re.search over H2_DRI_PLANT_PATTERNS (lines 145-163)
MatchesH2Pattern(plant_name) == plant_name = "HYBRIT demonstration plant"

\* plant_dri_process[plant] after the first k rows of dri_units, "none" for
\* a plant without an entry (lines 126-141)
RECURSIVE DriProcessAfter(_, _, _)
DriProcessAfter(dri_units, k, plant) ==
    IF k = 0 THEN "none"
    ELSE LET current == DriProcessAfter(dri_units, k - 1, plant)
             dri_process == REDUCTANT_MAP(dri_units[k].reductant)
         IN  IF dri_units[k].plant_name # plant THEN current
             ELSE IF current = "none" THEN dri_process
             ELSE IF dri_process = "DRI-H2" THEN "DRI-H2"
             ELSE IF dri_process = "DRI-coal" /\ current # "DRI-H2" THEN "DRI-coal"
             ELSE current

\* plant_dri_process[plant] after the name patterns (lines 143-163)
plant_dri_process(units_in, plant) ==
    LET dri_units == SelectSeq(units_in, LAMBDA u : u.unit_type = "dri")
        current == DriProcessAfter(dri_units, Len(dri_units), plant)
    IN  IF current # "none" /\ MatchesH2Pattern(plant) THEN "DRI-H2"
        ELSE current

\* assign_process (lines 173-183)
assign_process(units_in, row) ==
    IF row.unit_type = "bof" THEN "BF-BOF"
    ELSE IF row.unit_type = "eaf"
    THEN IF plant_dri_process(units_in, row.plant_name) # "none"
         THEN plant_dri_process(units_in, row.plant_name)
         ELSE "Scrap-EAF"
    ELSE "BF-BOF"

filter_steel_making_units(units_in) ==
    MapSeq(SelectSeq(units_in, LAMBDA u : u.unit_type \in {"bof", "eaf"}),
           LAMBDA u : [u EXCEPT !.process_type = assign_process(units_in, u)])

(***************************************************************************)
(* Process specification: a registry of furnace units, drawn once, is       *)
(* filtered to its steel-making units and then projected, as main() does    *)
(***************************************************************************)
\* the plants of the registry with their countries
RegistryPlants ==
    {[plant_name |-> "Kimitsu steel plant", country |-> "Japan"],
     [plant_name |-> "Hazira steel plant", country |-> "India"],
     [plant_name |-> "HYBRIT demonstration plant", country |-> "Sweden"]}

Reductants == {"hydrogen", "coal", "methane", "unknown"}

\* kampmann_audit.load_gem_units: process_type by _unit_to_process
RegistryRow(i, plant, unit_type, reductant) ==
    [id |-> i, status |-> "operating", start_year |-> 2000,
     pre_retirement_announced_year |-> NaN, retired_year |-> NaN,
     capacity_ttpa |-> 1000, country |-> plant.country,
     plant_name |-> plant.plant_name, unit_type |-> unit_type,
     reductant |-> reductant,
     process_type |-> CASE unit_type = "eaf" -> "Scrap-EAF"
                        [] unit_type = "dri" -> "DRI-gas"
                        [] OTHER -> "BF-BOF",
     parent |-> SoleOwner("Nippon Steel Corp")]

\* load_gem_units concatenates the DRI sheet before the BOF and EAF sheets
DriProfiles ==
    [plant : RegistryPlants, unit_type : {"dri"}, reductant : Reductants]

SteelProfiles ==
    [plant : RegistryPlants, unit_type : {"bof", "eaf"}, reductant : {"nan"}]

RegistryFrames ==
    {[i \in 1..(Len(d) + Len(e)) |->
         LET f == (d \o e)[i]
         IN  RegistryRow(i, f.plant, f.unit_type, f.reductant)] :
        d \in UNION {[1..n -> DriProfiles] : n \in 0..MaxUnits},
        e \in UNION {[1..n -> SteelProfiles] : n \in 0..1}}

InitProcess ==
    /\ units_df \in RegistryFrames
    /\ inputs = [company |-> "Nippon Steel"]
    /\ tp_detail = NotBuilt
    /\ bau_detail = NotBuilt
    /\ ret = [op |-> "none", rows |-> <<>>]

\* main(), line 890
FilterSteelMakingUnits ==
    /\ ret.op = "none"
    /\ ret' = [op |-> "filter_steel_making_units",
               rows |-> filter_steel_making_units(units_df)]
    /\ UNCHANGED <<units_df, inputs, tp_detail, bau_detail>>

\* main(), line 894: the projection of the filtered units
ProjectSteelUnits ==
    /\ ret.op = "filter_steel_making_units"
    /\ ~tp_detail.built
    /\ tp_detail' =
          [built |-> TRUE,
           rows |-> build_plant_level_tp(ret.rows, inputs.company, BaseYear,
                                         EndYear, Rat(DefaultUrPct, 100), FALSE)]
    /\ UNCHANGED <<units_df, inputs, bau_detail, ret>>

SpecProcess == InitProcess /\ [][FilterSteelMakingUnits \/ ProjectSteelUnits]_vars

\* the factor the documentation of the filter gives a process type, in
\* 0.001 tCO2/t
FactorOfProcessType(process_type, country) ==
    CASE process_type = "Scrap-EAF" -> EF_EAF(get_ef_region(country))
      [] process_type = "DRI-H2" -> 40
      [] process_type = "DRI-coal" -> 3100
      [] process_type = "DRI-gas" -> 1050

\* the EAF unit of the registry a detail row was projected from
EafUnitOf(row) ==
    \E i \in 1..Len(units_df) :
        units_df[i].id = row.id /\ units_df[i].unit_type = "eaf"

\* C23: every projected row of an EAF unit carries the process type the
\* filter assigns (Scrap-EAF without DRI at the plant, else the type of the
\* plant's DRI reductant), and its emissions are its output times the factor
\* of that process type (hydrogen 0.04, coal 3.10, gas 1.05, scrap by region)
C23_EafFactorByProcessType ==
    tp_detail.built =>
        \A k \in 1..Len(tp_detail.rows) :
            LET row == tp_detail.rows[k]
            IN  EafUnitOf(row) =>
                   /\ row.process_type
                         = IF plant_dri_process(units_df, units_df[row.id].plant_name)
                                 = "none"
                           THEN "Scrap-EAF"
                           ELSE plant_dri_process(units_df,
                                                  units_df[row.id].plant_name)
                   /\ row.emissions_mt
                         = RatRound(RatMul(RatMul(Rat(row.capacity_ttpa, 1000),
                                                  Rat(DefaultUrPct, 100)),
                                           Rat(FactorOfProcessType(row.process_type,
                                                                   row.country),
                                               1000)),
                                    10000)

(***************************************************************************)
(* Country-level production (apa_calculator.generate_country_production).   *)
(* production_kt is a fraction of kt; production_mt of the company          *)
(* production frame is in units of 0.1 Mt                                   *)
(***************************************************************************)
\* _KAMPMANN_TO_CANONICAL.get(raw_name, raw_name)
Canonical(raw_name) == IF raw_name = "POSCO" THEN "POSCO Holdings" ELSE raw_name

\* the test of lines 1336, 1376 and 1407 passing every pair
NotCoveredAlways(covered_pairs, company, year) == TRUE

\* (company, year) not in covered_pairs
NotCovered(covered_pairs, company, year) == <<company, year>> \notin covered_pairs

CountryRow(company, year, country, production_kt, source) ==
    [company |-> company, year |-> year, country |-> country,
     production_kt |-> production_kt, source |-> source]

\* the rows of priority 0 (lines 1294-1307); every curated row has the
\* source "annual_report"
CuratedRows(curated) ==
    MapSeq(curated,
           LAMBDA r : CountryRow(r.company, r.year, r.country,
                                 Rat(r.production_kt, 1), "curated_annual_report"))

\* k_prod (lines 1318-1322)
KProd(k) ==
    SelectSeq(k, LAMBDA r : /\ r.Variable = "Production (BAU)"
                            /\ 2020 <= r.Year /\ r.Year <= 2024
                            /\ r.Value > 0)

\* the rows of priority 1 (lines 1323-1344)
AldRows(k_prod, covered_pairs) ==
    MapSeq(SelectSeq(k_prod,
                     LAMBDA r : NotCovered(covered_pairs, Canonical(r.Name), r.Year)),
           LAMBDA r : CountryRow(Canonical(r.Name), r.Year, r.Country,
                                 Rat(r.Value, 1), "kampmann_ald"))

\* kampmann_2020[canonical]: the countries in the order of their first row,
\* each with the value of its last row (lines 1330-1333)
Kampmann2020(k_prod, canonical) ==
    LET rows == SelectSeq(k_prod,
                          LAMBDA r : Canonical(r.Name) = canonical /\ r.Year = 2020)
        Idx == [i \in 1..Len(rows) |-> i]
        first == SelectSeq(Idx, LAMBDA i : \A j \in 1..(i - 1) :
                                              rows[j].Country # rows[i].Country)
    IN  MapSeq(first,
               LAMBDA i :
                   LET last == CHOOSE j \in 1..Len(rows) :
                                   /\ rows[j].Country = rows[i].Country
                                   /\ \A l \in (j + 1)..Len(rows) :
                                         rows[l].Country # rows[i].Country
                   IN  [country |-> rows[i].Country, kt |-> rows[last].Value])

\* the rows of priority 2 for one company (the body of the loop, lines
\* 1359-1390); the production frame holds a (company, year) pair once
RECURSIVE ScaledRowsFrom(_, _, _, _, _)
ScaledRowsFrom(comp_prod, shares, prod_2020_mt, canonical, covered_pairs) ==
    IF comp_prod = <<>> THEN <<>>
    ELSE LET prod_row == Head(comp_prod)
             scale == IF prod_2020_mt.n > 0
                      THEN RatDiv(Rat(prod_row.production_mt, 10), prod_2020_mt)
                      ELSE Rat(1, 1)
             here ==
                 IF NotCovered(covered_pairs, canonical, prod_row.year)
                 THEN MapSeq(shares,
                             LAMBDA sh : CountryRow(canonical, prod_row.year,
                                             sh.country,
                                             RatMul(Rat(sh.kt, 1), scale),
                                             "kampmann_scaled"))
                 ELSE <<>>
         IN  here \o ScaledRowsFrom(Tail(comp_prod), shares, prod_2020_mt, canonical,
                                    covered_pairs \cup {<<canonical, prod_row.year>>})

ScaledRows(k_prod, company_production, canonical, covered_pairs) ==
    LET shares == Kampmann2020(k_prod, canonical)
        total_2020_kt == SumSeq(MapSeq(shares, LAMBDA sh : sh.kt))
        comp_prod == SelectSeq(company_production, LAMBDA r : r.company = canonical)
        prod_2020_row == SelectSeq(comp_prod, LAMBDA r : r.year = 2020)
        prod_2020_mt == IF prod_2020_row # <<>>
                        THEN Rat(Head(prod_2020_row).production_mt, 10)
                        ELSE Rat(total_2020_kt, 1000)
    IN  IF shares = <<>> \/ total_2020_kt <= 0 THEN <<>>
        ELSE ScaledRowsFrom(comp_prod, shares, prod_2020_mt, canonical, covered_pairs)

\* the order of sort_values and of groupby over the names the model draws
CompanyNames == <<"Nippon Steel", "POSCO Holdings">>

CountryNames == <<"India", "Japan">>

\* the rows of priority 3 for one row of the production frame (lines
\* 1403-1430)
GemShareRows(all_plants, prod_row) ==
    LET year_plants == get_plants_for_year(all_plants, prod_row.year)
        comp_plants == get_company_plants(year_plants, prod_row.company, prod_row.year)
        total_cap == SumSeq(MapSeq(comp_plants, LAMBDA q : q.capacity_ttpa))
        groups == SelectSeq(CountryNames,
                            LAMBDA c : \E i \in 1..Len(comp_plants) :
                                           comp_plants[i].country = c)
    IN  IF comp_plants = <<>> \/ total_cap <= 0 THEN <<>>
        ELSE MapSeq(groups,
                 LAMBDA c :
                     LET country_cap ==
                             SumSeq(MapSeq(SelectSeq(comp_plants,
                                                     LAMBDA q : q.country = c),
                                           LAMBDA q : q.capacity_ttpa))
                     IN  CountryRow(prod_row.company, prod_row.year, c,
                                    RatMul(Rat(prod_row.production_mt * 100, 1),
                                           Rat(country_cap, total_cap)),
                                    "gem_capacity_share"))

RECURSIVE GemRowsFrom(_, _, _)
GemRowsFrom(non_k, all_plants, covered_pairs) ==
    IF non_k = <<>> THEN <<>>
    ELSE LET prod_row == Head(non_k)
             here == IF NotCovered(covered_pairs, prod_row.company, prod_row.year)
                     THEN GemShareRows(all_plants, prod_row)
                     ELSE <<>>
         IN  here \o GemRowsFrom(Tail(non_k), all_plants,
                                 IF here = <<>> THEN covered_pairs
                                 ELSE covered_pairs
                                          \cup {<<prod_row.company, prod_row.year>>})

\* df.sort_values(["company", "year", "country"]), rows of one key kept in
\* their order
SortCountryRows(rows) ==
    LET Of(n, c) == SortByYear(SelectSeq(rows,
                        LAMBDA r : r.company = CompanyNames[n]
                                      /\ r.country = CountryNames[c]))
        OfCompany(n) ==
            SortByYear(Of(n, 1) \o Of(n, 2))
    IN  OfCompany(1) \o OfCompany(2)

generate_country_production(curated, k, company_production, all_plants) ==
    LET k_prod == KProd(k)
        tier0 == CuratedRows(curated)
        covered0 == {<<curated[i].company, curated[i].year>> : i \in 1..Len(curated)}
        tier1 == AldRows(k_prod, covered0)
        kampmann_companies == {Canonical(k_prod[i].Name) : i \in 1..Len(k_prod)}
        covered1 == covered0
                       \cup {<<Canonical(k_prod[i].Name), k_prod[i].Year>> :
                                i \in 1..Len(k_prod)}
        Scaled(n) == IF CompanyNames[n] \in kampmann_companies
                     THEN ScaledRows(k_prod, company_production, CompanyNames[n],
                                     covered1)
                     ELSE <<>>
        tier2 == Scaled(1) \o Scaled(2)
        covered2 == covered1 \cup {<<tier2[i].company, tier2[i].year>> :
                                      i \in 1..Len(tier2)}
        non_k == SelectSeq(company_production,
                           LAMBDA r : r.company \notin kampmann_companies)
        tier3 == IF all_plants = <<>> THEN <<>>
                 ELSE GemRowsFrom(non_k, all_plants, covered2)
    IN  SortCountryRows(tier0 \o tier1 \o tier2 \o tier3)

(***************************************************************************)
(* Country-production specification: the curated file, the Kampmann file,   *)
(* the company production frame and the plant frame, drawn once, and a      *)
(* call of generate_country_production                                      *)
(***************************************************************************)
CuratedFrames ==
    UNION {[1..n -> [company : {"Nippon Steel", "POSCO Holdings"},
                     year : {2019, 2020}, country : {"Japan"},
                     production_kt : {4000}]] : n \in 0..MaxObs}

KampmannFrames ==
    UNION {[1..n -> [Name : {"Nippon Steel", "POSCO"}, Year : {2019, 2020},
                     Country : {"Japan", "India"}, Value : {5000},
                     Variable : {"Production (BAU)"}]
                    \cup {[Name |-> "POSCO", Year |-> 2020, Country |-> "Japan",
                           Value |-> 0, Variable |-> "Production (BAU)"],
                          [Name |-> "POSCO", Year |-> 2020, Country |-> "Japan",
                           Value |-> 9000, Variable |-> "Emissions (BAU)"]}] :
              n \in 0..2}

\* the frames of load_production_data: a (company, year) pair at most once
CompanyProductionFrames ==
    LET pairs == <<[company |-> "Nippon Steel", year |-> 2019, production_mt |-> 60],
                   [company |-> "POSCO Holdings", year |-> 2020, production_mt |-> 50],
                   [company |-> "Nippon Steel", year |-> 2020, production_mt |-> 50],
                   [company |-> "POSCO Holdings", year |-> 2019, production_mt |-> 60]>>
    IN  {SelectSeq(pairs, LAMBDA r : r \in S) :
            S \in SUBSET {pairs[i] : i \in 1..Len(pairs)}}

CountryPlantFrames ==
    LET japan == [country |-> "Japan", process |-> "BF-BOF", capacity_ttpa |-> 10000,
                  owner |-> "Nippon Steel Corp"]
        india == [country |-> "India", process |-> "EAF", capacity_ttpa |-> 5000,
                  owner |-> "Nippon Steel Corp"]
    IN  {<<>>, <<AllocRow(1, japan)>>, <<AllocRow(1, japan), AllocRow(2, india)>>}

InitCountry ==
    /\ units_df \in CountryPlantFrames
    /\ inputs \in [curated : CuratedFrames, k : KampmannFrames,
                   company_production : CompanyProductionFrames]
    /\ tp_detail = NotBuilt
    /\ bau_detail = NotBuilt
    /\ ret = [op |-> "none", rows |-> <<>>]

GenerateCountryProduction ==
    /\ ret' = [op |-> "generate_country_production",
               rows |-> generate_country_production(inputs.curated, inputs.k,
                            inputs.company_production, units_df)]
    /\ UNCHANGED <<units_df, inputs, tp_detail, bau_detail>>

SpecCountry == InitCountry /\ [][GenerateCountryProduction]_vars

\* the priority tier of a source tag
TierOf(source) ==
    CASE source = "curated_annual_report" -> 0
      [] source = "kampmann_ald" -> 1
      [] source = "kampmann_scaled" -> 2
      [] source = "gem_capacity_share" -> 3

\* the pairs the curated file and the Kampmann production rows of 2020-2024
\* cover, and the companies the latter name
CuratedPairs ==
    {<<inputs.curated[i].company, inputs.curated[i].year>> :
        i \in 1..Len(inputs.curated)}

AldPairs ==
    {<<Canonical(inputs.k[i].Name), inputs.k[i].Year>> :
        i \in {j \in 1..Len(inputs.k) :
                  /\ inputs.k[j].Variable = "Production (BAU)"
                  /\ inputs.k[j].Year \in 2020..2024
                  /\ inputs.k[j].Value > 0}}

\* C25: all rows emitted for one (company, year) carry the source of one
\* priority tier, and a row of a lower tier is emitted only for a pair that
\* no higher tier covers: none but curated rows for a curated pair, no scaled
\* or capacity-share row for a pair of the Kampmann rows, and no
\* capacity-share row for a company the Kampmann rows name
C25_OneTierPerPair ==
    ret.op = "generate_country_production" =>
        /\ \A i, j \in 1..Len(ret.rows) :
              (ret.rows[i].company = ret.rows[j].company
                  /\ ret.rows[i].year = ret.rows[j].year)
                  => ret.rows[i].source = ret.rows[j].source
        /\ \A i \in 1..Len(ret.rows) :
              LET r == ret.rows[i]
              IN  /\ <<r.company, r.year>> \in CuratedPairs <=> TierOf(r.source) = 0
                  /\ TierOf(r.source) = 1 <=>
                        <<r.company, r.year>> \in AldPairs \ CuratedPairs
                  /\ TierOf(r.source) = 3 =>
                        \A p \in AldPairs : p[1] # r.company

\* a pair that the curated file and the Kampmann rows both cover, next to
\* pairs filled by scaling and by capacity shares
C25_Witness ==
    /\ ret.op = "generate_country_production"
    /\ CuratedPairs \cap AldPairs # {}
    /\ \E i, j \in 1..Len(ret.rows) :
          /\ ret.rows[i].source = "kampmann_scaled"
          /\ ret.rows[j].source = "curated_annual_report"

====
